---- MODULE Spec2Model ----
(***************************************************************************)
(* Quality-control pipeline of the data-extraction tool:                   *)
(*   backend/app/services/extraction_service.py  (parse, normalize,        *)
(*       completeness, verification merge, run_extraction)                 *)
(*   backend/app/services/grade_service.py       (compute_overall_certainty)*)
(*                                                                         *)
(* JSON values are tagged nodes.  A dict keeps its keys in insertion order *)
(* (keys[i] maps to vals[i]), as a Python dict does.                       *)
(***************************************************************************)
EXTENDS Integers, Sequences, FiniteSets, TLC

VARIABLES
    pc,               \* the step the operation under study has reached
    data,             \* extraction_data: the record, mutated in place
    before,           \* the record as it was before the last merge / normalization
    verification,     \* the JSON value of the verification response
    raised,           \* the operation raised an exception
    stats,            \* completeness: the summary of _compute_completeness
    text,             \* the text of the first oracle response
    parsed,           \* the result of _parse_extraction_response(text)
    study_design,     \* arguments and result of compute_overall_certainty
    domain_ratings,
    upgrade_factors,
    certainty,
    response,         \* the JSON value written in the first oracle response
    verify_text,      \* the text of the verification response
    first_stats,      \* the summary computed on the first-pass record (line 97)
    persisted,        \* the Extraction row stored by run_extraction
    verify_failed,    \* the except branch of line 127 was taken
    oracle_calls,     \* calls of claude_client.extract_from_pdf made by run_extraction
    validation_warnings,  \* the result of validate_extraction(data)
    doc,              \* the pages of the PDF given to the Locator
    quote,            \* the quote given to the Locator
    locations,        \* the result of the last find_quote_locations(doc, quote)
    first_locations,  \* the result of the first call
    fuzzy_called,     \* the last call went through _fuzzy_find_quote
    calls,            \* calls of find_quote_locations made so far
    assessments,      \* the GradeAssessment rows stored for the extraction
    returned,         \* the assessment object returned by the last override_grade_domain
    request,          \* the last override request, its status, and the requests made
    rows,             \* the versions of the Extraction rows stored for the article
    worker            \* the position of each overlapping run_extraction call

parseVars == <<text, parsed>>
gradeVars == <<study_design, domain_ratings, upgrade_factors, certainty>>
runVars == <<response, verify_text, first_stats, persisted, verify_failed, oracle_calls>>
locateVars == <<doc, quote, locations, first_locations, fuzzy_called, calls>>
assessVars == <<assessments, returned, request>>
versionVars == <<rows, worker>>

vars ==
    <<pc, data, before, verification, raised, stats, validation_warnings,
      parseVars, gradeVars, runVars, locateVars, assessVars, versionVars>>

(***************************************************************************)
(* Bounds of the model.                                                    *)
(***************************************************************************)
\* nesting levels (sections / lists) generated above a Field
MaxDepth == 3
\* length, in tokens, of the oracle texts given to the parser
MaxTextLen == 4
\* entries of the GRADE mappings that are missing, empty, null or unrecognised
MaxIrregular == 1

(***************************************************************************)
(* JSON values.                                                            *)
(***************************************************************************)
Null == [k |-> "null", s |-> "", num |-> 0, dec |-> 0, keys |-> <<>>, vals |-> <<>>]
\* a string known as one word
Str(x) == [k |-> "str", s |-> x, num |-> 0, dec |-> 0, keys |-> <<>>, vals |-> <<>>]
\* a string spelled out character by character
Text(cs) ==
    IF Len(cs) = 1 THEN Str(cs[1])
    ELSE [k |-> "str", s |-> "", num |-> 0, dec |-> 0, keys |-> cs, vals |-> <<>>]
\* the number num / 10^dec
Num(n, d) == [k |-> "num", s |-> "", num |-> n, dec |-> d, keys |-> <<>>, vals |-> <<>>]
Dict(ks, vs) == [k |-> "dict", s |-> "", num |-> 0, dec |-> 0, keys |-> ks, vals |-> vs]
List(vs) == [k |-> "list", s |-> "", num |-> 0, dec |-> 0, keys |-> <<>>, vals |-> vs]

\* the characters of a string
chars_of(n) == IF n.s # "" THEN <<n.s>> ELSE n.keys

IsDict(n) == n.k = "dict"
IsList(n) == n.k = "list"
\* Python: a list or a dict cannot be hashed (set / dict-key membership raises TypeError)
Hashable(n) == n.k \notin {"dict", "list"}

\* key in d
HasKey(d, key) == \E i \in 1..Len(d.keys) : d.keys[i] = key
KeyIndex(d, key) == CHOOSE i \in 1..Len(d.keys) : d.keys[i] = key
\* d.get(key)  (None when the key is absent)
Get(d, key) == IF HasKey(d, key) THEN d.vals[KeyIndex(d, key)] ELSE Null
\* d.get(key, default)
GetDefault(d, key, default) == IF HasKey(d, key) THEN d.vals[KeyIndex(d, key)] ELSE default
\* d[key] = v  (an existing key keeps its position, a new key is appended)
SetKey(d, key, v) ==
    IF HasKey(d, key)
    THEN [d EXCEPT !.vals[KeyIndex(d, key)] = v]
    ELSE [d EXCEPT !.keys = Append(d.keys, key), !.vals = Append(d.vals, v)]
\* replace the i-th value of a dict or list (the in-place mutation of a child)
SetVal(n, i, v) == [n EXCEPT !.vals[i] = v]

\* result of a call: the (possibly mutated) argument, and whether it raised
Ok(n) == [v |-> n, exc |-> FALSE]
Raise(n) == [v |-> n, exc |-> TRUE]

VALID_CONFIDENCE == {"high", "medium", "low"}
VALID_MISSING_REASONS == {"not_reported", "explicitly_absent", "not_applicable", "unclear"}

\* x in VALID_CONFIDENCE / VALID_MISSING_REASONS for a hashable x
InLabels(n, labels) == n.k = "str" /\ n.s \in labels

(***************************************************************************)
(* _normalize_field                                                        *)
(***************************************************************************)
normalize_confidence(field) ==
    LET conf == Get(field, "confidence") IN
    IF ~Hashable(conf) THEN Raise(field)
    ELSE IF ~InLabels(conf, VALID_CONFIDENCE)
         THEN Ok(SetKey(field, "confidence",
                        IF Get(field, "value") # Null THEN Str("low") ELSE Null))
         ELSE Ok(field)

normalize_missing_reason(field) ==
    LET reason == Get(field, "missing_reason") IN
    IF Get(field, "value") = Null
    THEN IF ~Hashable(reason) THEN Raise(field)
         ELSE IF ~InLabels(reason, VALID_MISSING_REASONS)
              THEN Ok(SetKey(field, "missing_reason", Str("not_reported")))
              ELSE Ok(field)
    ELSE Ok(SetKey(field, "missing_reason", Null))

_normalize_field(field) ==
    LET c == normalize_confidence(field) IN
    IF c.exc THEN c
    ELSE LET m == normalize_missing_reason(c.v) IN
         IF m.exc THEN m
         ELSE IF ~HasKey(m.v, "quotes")
              THEN Ok(SetKey(m.v, "quotes", List(<<>>)))
              ELSE m

(***************************************************************************)
(* _normalize_confidence_metadata                                          *)
(***************************************************************************)
RECURSIVE _normalize_confidence_metadata(_)
RECURSIVE normalize_items(_, _)
RECURSIVE normalize_section(_, _)
RECURSIVE normalize_list(_, _)

\* lines 212-216: the sub-fields of a section-level dict, from the i-th on
normalize_section(sec, i) ==
    IF i > Len(sec.vals) THEN Ok(sec)
    ELSE LET sub_val == sec.vals[i]
             r == IF IsDict(sub_val) /\ HasKey(sub_val, "value")
                  THEN _normalize_field(sub_val)
                  ELSE IF IsDict(sub_val)
                       THEN _normalize_confidence_metadata(sub_val)
                       ELSE Ok(sub_val)
         IN IF r.exc THEN Raise(SetVal(sec, i, r.v))
            ELSE normalize_section(SetVal(sec, i, r.v), i + 1)

\* lines 218-220: the items of a list, from the i-th on
normalize_list(lst, i) ==
    IF i > Len(lst.vals) THEN Ok(lst)
    ELSE LET item == lst.vals[i]
             r == IF IsDict(item) THEN _normalize_confidence_metadata(item)
                  ELSE Ok(item)
         IN IF r.exc THEN Raise(SetVal(lst, i, r.v))
            ELSE normalize_list(SetVal(lst, i, r.v), i + 1)

\* lines 205-220: the items of data, from the i-th on
normalize_items(d, i) ==
    IF i > Len(d.vals) THEN Ok(d)
    ELSE LET value == d.vals[i]
             r == IF IsDict(value)
                  THEN IF HasKey(value, "value")
                          /\ (HasKey(value, "confidence") \/ HasKey(value, "quotes"))
                       THEN _normalize_field(value)
                       ELSE normalize_section(value, 1)
                  ELSE IF IsList(value)
                       THEN normalize_list(value, 1)
                       ELSE Ok(value)
         IN IF r.exc THEN Raise(SetVal(d, i, r.v))
            ELSE normalize_items(SetVal(d, i, r.v), i + 1)

\* data.items() raises AttributeError when data is not a dict
_normalize_confidence_metadata(d) ==
    IF ~IsDict(d) THEN Raise(d) ELSE normalize_items(d, 1)

(***************************************************************************)
(* _compute_completeness / _count_fields_in_dict                           *)
(***************************************************************************)
NewStats ==
    [total_fields |-> 0, extracted |-> 0, missing |-> 0,
     low_confidence |-> 0, medium_confidence |-> 0, high_confidence |-> 0,
     by_section |-> <<>>,
     missing_reasons |-> [r \in VALID_MISSING_REASONS |-> 0]]

NewSectionStats == [total |-> 0, extracted |-> 0, missing |-> 0, low_confidence |-> 0]

\* count_field with the last branch written "elif conf == 'low'": a present value
\* whose confidence is none of the three labels is counted in no confidence bucket
count_field_elif_low(val, acc) ==
    LET st1 == [acc.st EXCEPT !.total_fields = @ + 1]
        sec1 == [acc.sec EXCEPT !.total = @ + 1]
    IN IF Get(val, "value") # Null
       THEN LET conf == GetDefault(val, "confidence", Str("low"))
                st2 == [st1 EXCEPT !.extracted = @ + 1]
                sec2 == [sec1 EXCEPT !.extracted = @ + 1]
            IN IF conf = Str("high")
               THEN [st |-> [st2 EXCEPT !.high_confidence = @ + 1], sec |-> sec2, exc |-> FALSE]
               ELSE IF conf = Str("medium")
                    THEN [st |-> [st2 EXCEPT !.medium_confidence = @ + 1], sec |-> sec2,
                          exc |-> FALSE]
                    ELSE IF conf = Str("low")
                         THEN [st |-> [st2 EXCEPT !.low_confidence = @ + 1],
                               sec |-> [sec2 EXCEPT !.low_confidence = @ + 1], exc |-> FALSE]
                         ELSE [st |-> st2, sec |-> sec2, exc |-> FALSE]
       ELSE [st |-> [st1 EXCEPT !.missing = @ + 1],
             sec |-> [sec1 EXCEPT !.missing = @ + 1], exc |-> FALSE]

\* lines 284-302: one Field is counted into stats and section_stats
count_field(val, acc) ==
    LET st1 == [acc.st EXCEPT !.total_fields = @ + 1]
        sec1 == [acc.sec EXCEPT !.total = @ + 1]
    IN IF Get(val, "value") # Null
       THEN LET conf == GetDefault(val, "confidence", Str("low"))
                st2 == [st1 EXCEPT !.extracted = @ + 1]
                sec2 == [sec1 EXCEPT !.extracted = @ + 1]
            IN IF conf = Str("high")
               THEN [st |-> [st2 EXCEPT !.high_confidence = @ + 1], sec |-> sec2, exc |-> FALSE]
               ELSE IF conf = Str("medium")
                    THEN [st |-> [st2 EXCEPT !.medium_confidence = @ + 1], sec |-> sec2,
                          exc |-> FALSE]
                    ELSE [st |-> [st2 EXCEPT !.low_confidence = @ + 1],
                          sec |-> [sec2 EXCEPT !.low_confidence = @ + 1], exc |-> FALSE]
       ELSE LET reason == GetDefault(val, "missing_reason", Str("not_reported"))
                st2 == [st1 EXCEPT !.missing = @ + 1]
                sec2 == [sec1 EXCEPT !.missing = @ + 1]
            IN IF ~Hashable(reason)
               THEN [st |-> st2, sec |-> sec2, exc |-> TRUE]
               ELSE IF InLabels(reason, VALID_MISSING_REASONS)
                    THEN [st |-> [st2 EXCEPT !.missing_reasons[reason.s] = @ + 1],
                          sec |-> sec2, exc |-> FALSE]
                    ELSE [st |-> st2, sec |-> sec2, exc |-> FALSE]

RECURSIVE _count_fields_in_dict(_, _, _)
RECURSIVE count_list_items(_, _, _)

\* lines 306-308 (and 268-270): the dict items of a list, from the i-th on
count_list_items(lst, acc, i) ==
    IF i > Len(lst.vals) \/ acc.exc THEN acc
    ELSE count_list_items(lst,
             IF IsDict(lst.vals[i]) THEN _count_fields_in_dict(lst.vals[i], acc, 1) ELSE acc,
             i + 1)

\* lines 280-308: the items of d, from the i-th on
_count_fields_in_dict(d, acc, i) ==
    IF i > Len(d.vals) \/ acc.exc THEN acc
    ELSE LET key == d.keys[i]
             val == d.vals[i]
             next == IF key \in {"source_locations", "quotes"} THEN acc
                     ELSE IF IsDict(val) /\ HasKey(val, "value") THEN count_field(val, acc)
                     ELSE IF IsDict(val) THEN _count_fields_in_dict(val, acc, 1)
                     ELSE IF IsList(val) THEN count_list_items(val, acc, 1)
                     ELSE acc
         IN _count_fields_in_dict(d, next, i + 1)

RECURSIVE compute_sections(_, _, _)
\* lines 259-273: the top-level sections of data, from the i-th on
compute_sections(d, st, i) ==
    IF i > Len(d.vals) THEN [v |-> st, exc |-> FALSE]
    ELSE IF d.keys[i] \in {"error", "raw_text", "custom_fields"}
         THEN compute_sections(d, st, i + 1)
         ELSE LET section_val == d.vals[i]
                  acc0 == [st |-> st, sec |-> NewSectionStats, exc |-> FALSE]
                  acc == IF IsDict(section_val) THEN _count_fields_in_dict(section_val, acc0, 1)
                         ELSE IF IsList(section_val) THEN count_list_items(section_val, acc0, 1)
                         ELSE acc0
              IN IF acc.exc THEN [v |-> acc.st, exc |-> TRUE]
                 ELSE compute_sections(d,
                          IF acc.sec.total > 0
                          THEN [acc.st EXCEPT !.by_section = Append(@, <<d.keys[i], acc.sec>>)]
                          ELSE acc.st,
                          i + 1)

\* returns [v |-> the summary, exc |-> whether it raised]
_compute_completeness(d) ==
    IF ~IsDict(d) THEN [v |-> NewStats, exc |-> TRUE] ELSE compute_sections(d, NewStats, 1)

(***************************************************************************)
(* _merge_verification_pass                                                *)
(***************************************************************************)
\* conf_order.get(conf, 0), for a hashable conf
conf_order(conf) ==
    IF conf = Str("high") THEN 3
    ELSE IF conf = Str("medium") THEN 2
    ELSE IF conf = Str("low") THEN 1
    ELSE 0

\* lines 345-348 written with >= : a patch of equal confidence also replaces
improved_or_equal(o, val) ==
    \/ conf_order(GetDefault(val, "confidence", Str("low")))
           >= conf_order(GetDefault(o, "confidence", Str("low")))
    \/ (Get(o, "value") = Null /\ Get(val, "value") # Null)

\* lines 342-348: the verification Field val improved on the original Field o
improved(o, val) ==
    \/ conf_order(GetDefault(val, "confidence", Str("low")))
           > conf_order(GetDefault(o, "confidence", Str("low")))
    \/ (Get(o, "value") = Null /\ Get(val, "value") # Null)

RECURSIVE _merge_verification_pass(_, _)
RECURSIVE merge_items(_, _, _)
RECURSIVE merge_list(_, _, _)

\* lines 355-357: the items of the verification list, from the i-th on
merge_list(olist, vlist, i) ==
    IF i > Len(vlist.vals) THEN Ok(olist)
    ELSE IF i <= Len(olist.vals) /\ IsDict(vlist.vals[i])
         THEN LET r == _merge_verification_pass(olist.vals[i], vlist.vals[i]) IN
              IF r.exc THEN Raise(SetVal(olist, i, r.v))
              ELSE merge_list(SetVal(olist, i, r.v), vlist, i + 1)
         ELSE merge_list(olist, vlist, i + 1)

\* lines 335-357: the items of verification, from the i-th on; original is a dict
merge_items(original, verif, i) ==
    IF i > Len(verif.vals) THEN Ok(original)
    ELSE LET key == verif.keys[i]
             val == verif.vals[i]
         IN IF ~HasKey(original, key) THEN merge_items(original, verif, i + 1)
            ELSE LET o == Get(original, key)
                     j == KeyIndex(original, key)
                 IN IF IsDict(val)
                    THEN IF IsDict(o)
                         THEN IF HasKey(val, "value") /\ HasKey(o, "value")
                              THEN IF ~Hashable(GetDefault(val, "confidence", Str("low")))
                                      \/ ~Hashable(GetDefault(o, "confidence", Str("low")))
                                   THEN Raise(original)
                                   ELSE merge_items(
                                            IF improved(o, val) THEN SetVal(original, j, val)
                                            ELSE original,
                                            verif, i + 1)
                              ELSE LET r == _merge_verification_pass(o, val) IN
                                   IF r.exc THEN Raise(SetVal(original, j, r.v))
                                   ELSE merge_items(SetVal(original, j, r.v), verif, i + 1)
                         ELSE merge_items(original, verif, i + 1)
                    ELSE IF IsList(val) /\ IsList(o)
                         THEN LET r == merge_list(o, val, 1) IN
                              IF r.exc THEN Raise(SetVal(original, j, r.v))
                              ELSE merge_items(SetVal(original, j, r.v), verif, i + 1)
                         ELSE merge_items(original, verif, i + 1)

RECURSIVE add_missing_keys(_, _, _)
\* original with the keys of verif that it lacks, from the i-th on
add_missing_keys(original, verif, i) ==
    IF i > Len(verif.keys) THEN original
    ELSE add_missing_keys(IF HasKey(original, verif.keys[i]) THEN original
                          ELSE SetKey(original, verif.keys[i], verif.vals[i]),
                          verif, i + 1)

_merge_verification_pass_adding(original, verif) ==
    IF IsDict(verif) /\ IsDict(original)
    THEN merge_items(add_missing_keys(original, verif, 1), verif, 1)
    ELSE Raise(original)

\* verification.items() raises when verification is not a dict; "key not in original"
\* raises when original is None, and original[key] / original.get(key) raises when
\* original is a string or a list that holds the key (strings are atomic here)
_merge_verification_pass(original, verif) ==
    IF ~IsDict(verif) THEN Raise(original)
    ELSE IF Len(verif.keys) = 0 THEN Ok(original)
    ELSE IF IsDict(original) THEN merge_items(original, verif, 1)
    ELSE IF original = Null THEN Raise(original)
    ELSE IF \E i \in 1..Len(verif.keys) :
                /\ IsDict(verif.vals[i]) \/ IsList(verif.vals[i])
                /\ \/ original = Str(verif.keys[i])
                   \/ (IsList(original) /\ \E e \in 1..Len(original.vals) :
                                               original.vals[e] = Str(verif.keys[i]))
         THEN Raise(original)
         ELSE Ok(original)

(***************************************************************************)
(* _parse_extraction_response.  An oracle text is a sequence of tokens:    *)
(*   "fence" the three backquotes, "json" the word json, "ws" whitespace,  *)
(*   "obj" the text of a JSON object, "arr" the text of any other JSON     *)
(*   value, "junk" text that is not JSON.                                  *)
(***************************************************************************)
Tokens == {"fence", "json", "ws", "obj", "arr", "junk"}

RECURSIVE lstrip(_)
lstrip(t) == IF Len(t) > 0 /\ Head(t) = "ws" THEN lstrip(Tail(t)) ELSE t

RECURSIVE rstrip(_)
rstrip(t) ==
    IF Len(t) > 0 /\ t[Len(t)] = "ws" THEN rstrip(SubSeq(t, 1, Len(t) - 1)) ELSE t

\* text.strip()
strip(t) == rstrip(lstrip(t))

\* text.index("```", start): the position of the first fence at or after start (0-based
\* start = number of tokens before it); 0 when there is none (ValueError)
index_fence(t, start) ==
    IF \E i \in (start + 1)..Len(t) : t[i] = "fence"
    THEN CHOOSE i \in (start + 1)..Len(t) :
             t[i] = "fence" /\ \A j \in (start + 1)..(i - 1) : t[j] # "fence"
    ELSE 0

\* text.index("```json"): the position of the first fence followed by json; 0 if none
index_fence_json(t) ==
    IF \E i \in 1..(Len(t) - 1) : t[i] = "fence" /\ t[i + 1] = "json"
    THEN CHOOSE i \in 1..(Len(t) - 1) :
             /\ t[i] = "fence" /\ t[i + 1] = "json"
             /\ \A j \in 1..(i - 1) : ~(t[j] = "fence" /\ t[j + 1] = "json")
    ELSE 0

\* json.loads(text): a single JSON document, surrounding whitespace allowed
json_loads(t) ==
    IF strip(t) = <<"obj">> THEN "obj" ELSE IF strip(t) = <<"arr">> THEN "arr" ELSE "error"

\* lines 196-200: the parsed value, or the degraded record {error, raw_text}
loads_or_degraded(t) ==
    IF json_loads(t) = "error"
    THEN [status |-> "degraded", value |-> "", raw_text |-> t]
    ELSE [status |-> "json", value |-> json_loads(t), raw_text |-> <<>>]

\* lines 182-200
_parse_extraction_response(t0) ==
    LET t == strip(t0)
        fj == index_fence_json(t)
        f == index_fence(t, 0)
        \* number of tokens up to the end of the opening fence
        start == IF fj > 0 THEN fj + 1 ELSE f
        end == index_fence(t, start)
    IN IF fj = 0 /\ f = 0 THEN loads_or_degraded(t)
       ELSE IF end = 0 THEN [status |-> "raised", value |-> "", raw_text |-> <<>>]
       ELSE loads_or_degraded(strip(SubSeq(t, start + 1, end - 1)))

(***************************************************************************)
(* compute_overall_certainty (grade_service.py).  A study-design text is a *)
(* sequence of characters.                                                 *)
(***************************************************************************)
Max(a, b) == IF a >= b THEN a ELSE b
Min(a, b) == IF a <= b THEN a ELSE b

Bool(b) ==
    [k |-> "bool", s |-> IF b THEN "true" ELSE "false", num |-> 0, dec |-> 0,
     keys |-> <<>>, vals |-> <<>>]
EmptyDict == Dict(<<>>, <<>>)

\* Python truthiness of a JSON value
Truthy(n) ==
    CASE n.k = "bool" -> n.s = "true"
      [] n.k = "str" -> chars_of(n) # <<>>
      [] n.k = "num" -> n.num # 0
      [] n.k = "null" -> FALSE
      [] OTHER -> Len(n.vals) > 0

UpperCase == <<"A", "C", "D", "I", "M", "N", "O", "P", "R", "S", "T", "Z">>
LowerCase == <<"a", "c", "d", "i", "m", "n", "o", "p", "r", "s", "t", "z">>

\* str.lower(), character by character
lower(t) ==
    [i \in 1..Len(t) |->
        IF \E j \in 1..Len(UpperCase) : UpperCase[j] = t[i]
        THEN LowerCase[CHOOSE j \in 1..Len(UpperCase) : UpperCase[j] = t[i]]
        ELSE t[i]]

\* kw in t
contains(t, kw) ==
    \E i \in 0..(Len(t) - Len(kw)) : \A j \in 1..Len(kw) : t[i + j] = kw[j]

rct_keywords ==
    {<<"r", "c", "t">>,
     <<"r", "a", "n", "d", "o", "m", "i", "z", "e", "d">>,
     <<"r", "a", "n", "d", "o", "m", "i", "s", "e", "d">>,
     <<"r", "a", "n", "d", "o", "m">>}

\* lines 148-152
starting_level(design) ==
    IF \E kw \in rct_keywords : contains(lower(design), kw) THEN 4 ELSE 2

\* downgrade_map.get(rating, 0), for a hashable rating
downgrade_map(rating) ==
    IF rating = Str("serious") THEN -1
    ELSE IF rating = Str("very_serious") THEN -2
    ELSE 0

downgrade_domains ==
    <<"risk_of_bias", "inconsistency", "indirectness", "imprecision", "publication_bias">>
upgrade_names == <<"large_effect", "dose_response", "residual_confounding">>

\* line 165 with the level clamped at once: certainty_level = max(1, certainty_level + ...)
downgrade_step_clamped(level, rating) == Max(1, level + downgrade_map(rating))

\* line 165
downgrade_step(level, rating) == level + downgrade_map(rating)

RECURSIVE apply_downgrades(_, _, _)
\* lines 156-165, from the i-th domain on; [v |-> level, exc |-> raised]
apply_downgrades(level, ratings, i) ==
    IF i > Len(downgrade_domains) THEN [v |-> level, exc |-> FALSE]
    ELSE LET domain == GetDefault(ratings, downgrade_domains[i], EmptyDict) IN
         IF ~IsDict(domain) THEN [v |-> level, exc |-> TRUE]
         ELSE LET rating == GetDefault(domain, "rating", Str("no_serious")) IN
              IF ~Hashable(rating) THEN [v |-> level, exc |-> TRUE]
              ELSE apply_downgrades(downgrade_step(level, rating), ratings, i + 1)

RECURSIVE apply_upgrades(_, _, _)
\* lines 168-171, from the i-th factor on
apply_upgrades(level, upgrades, i) ==
    IF i > Len(upgrade_names) THEN [v |-> level, exc |-> FALSE]
    ELSE LET factor == GetDefault(upgrades, upgrade_names[i], EmptyDict) IN
         IF ~IsDict(factor) THEN [v |-> level, exc |-> TRUE]
         ELSE apply_upgrades(
                  IF Truthy(GetDefault(factor, "applicable", Bool(FALSE)))
                  THEN level + 1 ELSE level,
                  upgrades, i + 1)

level_map(level) ==
    CASE level = 4 -> "high" [] level = 3 -> "moderate" [] level = 2 -> "low"
      [] level = 1 -> "very_low"

\* lines 141-177; [v |-> the label, exc |-> raised]
compute_overall_certainty(design, ratings, upgrades) ==
    LET d == apply_downgrades(starting_level(design), ratings, 1) IN
    IF d.exc THEN [v |-> "", exc |-> TRUE]
    ELSE LET u == apply_upgrades(d.v, upgrades, 1) IN
         IF u.exc THEN [v |-> "", exc |-> TRUE]
         ELSE [v |-> level_map(Max(1, Min(4, u.v))), exc |-> FALSE]

(***************************************************************************)
(* _collect_fields_needing_verification.  A path is the sequence of its    *)
(* steps: a key, or "[i]" for the i-th element of a list.                  *)
(***************************************************************************)
IndexStep(i) == <<"[0]", "[1]", "[2]", "[3]">>[i]

RECURSIVE _collect_fields_needing_verification(_, _, _)
RECURSIVE collect_list(_, _, _)

\* lines 325-329: the dict items of a list at path, from the i-th on
collect_list(lst, path, i) ==
    IF i > Len(lst.vals) THEN <<>>
    ELSE (IF IsDict(lst.vals[i])
          THEN _collect_fields_needing_verification(lst.vals[i],
                                                    Append(path, IndexStep(i)), 1)
          ELSE <<>>)
         \o collect_list(lst, path, i + 1)

\* lines 314-330: the items of d under prefix, from the i-th on
_collect_fields_needing_verification(d, prefix, i) ==
    IF i > Len(d.vals) THEN <<>>
    ELSE LET val == d.vals[i]
             path == Append(prefix, d.keys[i])
         IN (IF IsDict(val)
             THEN IF HasKey(val, "value")
                  THEN IF Get(val, "confidence") = Str("low")
                          \/ Get(val, "missing_reason") = Str("unclear")
                       THEN <<path>> ELSE <<>>
                  ELSE _collect_fields_needing_verification(val, path, 1)
             ELSE IF IsList(val) THEN collect_list(val, path, 1)
             ELSE <<>>)
            \o _collect_fields_needing_verification(d, prefix, i + 1)

needs_verify_or_equal(st) == 5 * (st.low_confidence + st.missing) >= Max(st.total_fields, 1)

\* line 103: (low_conf + missing) / max(total, 1) > 0.2
needs_verify(st) == 5 * (st.low_confidence + st.missing) > Max(st.total_fields, 1)

RECURSIVE _walk_fields_for_review(_, _, _)
RECURSIVE walk_list(_, _, _)

\* lines 381-384: the dict items of a list at path, from the i-th on
walk_list(lst, path, i) ==
    IF i > Len(lst.vals) THEN <<>>
    ELSE (IF IsDict(lst.vals[i])
          THEN _walk_fields_for_review(lst.vals[i], Append(path, IndexStep(i)), 1)
          ELSE <<>>)
         \o walk_list(lst, path, i + 1)

\* lines 368-384: the review status of the Fields of d under prefix, from the i-th item on
_walk_fields_for_review(d, prefix, i) ==
    IF i > Len(d.vals) THEN <<>>
    ELSE LET val == d.vals[i]
             path == Append(prefix, d.keys[i])
         IN (IF IsDict(val)
             THEN IF HasKey(val, "value")
                  THEN <<[path |-> path,
                          status |-> IF Get(val, "confidence") = Str("low")
                                        \/ Get(val, "missing_reason") = Str("unclear")
                                     THEN "needs_review" ELSE "pending"]>>
                  ELSE _walk_fields_for_review(val, path, 1)
             ELSE IF IsList(val) THEN walk_list(val, path, 1)
             ELSE <<>>)
            \o _walk_fields_for_review(d, prefix, i + 1)

\* lines 361-365
_generate_initial_review_status(d) == _walk_fields_for_review(d, <<>>, 1)

(***************************************************************************)
(* The Locator (pdf_service.py).  A document is a sequence of pages.  A    *)
(* page holds one line of text: its characters sit side by side in cells   *)
(* 10 points wide and 12 points high, the line starting at the left edge   *)
(* and at the height page.top; words are separated by single spaces.       *)
(* Coordinates are counted in points, normalized coordinates in            *)
(* ten-thousandths of the page width or height.                            *)
(***************************************************************************)
\* a fraction num / den, den > 0
Ratio(a, b) == [num |-> a, den |-> b]
ratio_gt(r, t) == r.num * t.den > t.num * r.den
ratio_ge(r, t) == r.num * t.den >= t.num * r.den

MaxOf(S) == CHOOSE x \in S : \A y \in S : y <= x
MinOf(S) == CHOOSE x \in S : \A y \in S : x <= y

\* round(a / b, 4), in ten-thousandths (a tie goes to the even neighbour)
round4(a, b) ==
    LET q == (10000 * a) \div b
        r == (10000 * a) % b
    IN IF 2 * r > b \/ (2 * r = b /\ q % 2 = 1) THEN q + 1 ELSE q

\* the box of the characters at offsets from .. to - 1 of the page's line
char_rect(page, from, to) ==
    [x0 |-> 10 * from, y0 |-> page.top, x1 |-> 10 * to, y1 |-> page.top + 12]

RECURSIVE search_from(_, _, _)
\* the hits of the quote from the 1-based position i on: found without regard to
\* case, left to right, a hit starting after the end of the one before
search_from(page, needle, i) ==
    LET n == Len(needle) IN
    IF n = 0 \/ i + n - 1 > Len(page.text) THEN <<>>
    ELSE IF lower(SubSeq(page.text, i, i + n - 1)) = lower(needle)
         THEN <<char_rect(page, i - 1, i - 1 + n)>> \o search_from(page, needle, i + n)
         ELSE search_from(page, needle, i + 1)

\* page.search_for(quote, quads=True): the boxes of the hits
search_for(page, needle) == search_from(page, needle, 1)

\* index of the last character of the word that starts at position i
last_of_word(t, i) ==
    CHOOSE j \in i..Len(t) :
        /\ \A c \in i..j : t[c] # " "
        /\ j = Len(t) \/ t[j + 1] = " "

RECURSIVE words_from(_, _)
words_from(page, i) ==
    IF i > Len(page.text) THEN <<>>
    ELSE IF page.text[i] = " " THEN words_from(page, i + 1)
    ELSE LET j == last_of_word(page.text, i) IN
         <<[rect |-> char_rect(page, i - 1, j), text |-> SubSeq(page.text, i, j)]>>
             \o words_from(page, j + 1)

\* page.get_text("words", sort=True): the words with their boxes, in reading order
get_words(page) == words_from(page, 1)

\* lines 132-139 and 203-210: a location, normalized to the page and rounded
location_zero_based(page, page_num, rect, matched) ==
    [page |-> page_num,
     x0 |-> round4(rect.x0, page.width), y0 |-> round4(rect.y0, page.height),
     x1 |-> round4(rect.x1, page.width), y1 |-> round4(rect.y1, page.height),
     text |-> matched]

location(page, page_num, rect, matched) ==
    [page |-> page_num + 1,
     x0 |-> round4(rect.x0, page.width), y0 |-> round4(rect.y0, page.height),
     x1 |-> round4(rect.x1, page.width), y1 |-> round4(rect.y1, page.height),
     text |-> matched]

RECURSIVE exact_pass(_, _, _, _)
\* lines 126-142: the pages from page_num (0-based) on, until one has a hit
exact_pass(pdf, needle, page_num, found) ==
    IF page_num >= Len(pdf) THEN found
    ELSE LET page == pdf[page_num + 1]
             quads == search_for(page, needle)
             more == found \o [q \in 1..Len(quads) |->
                                   location(page, page_num, quads[q], needle)]
         IN IF Len(more) > 0 THEN more
            ELSE exact_pass(pdf, needle, page_num + 1, more)

(***************************************************************************)
(* difflib.SequenceMatcher(None, a, b), for sequences under 200 elements   *)
(* (no junk): ratio() is 2 * M / T, M the matched characters.              *)
(***************************************************************************)
RECURSIVE run_length(_, _, _, _, _, _)
\* length of the common run that starts at a[i] and b[j]
run_length(a, b, i, j, ahi, bhi) ==
    IF i > ahi \/ j > bhi THEN 0
    ELSE IF a[i] # b[j] THEN 0
    ELSE 1 + run_length(a, b, i + 1, j + 1, ahi, bhi)

\* the longest block common to a[alo..ahi] and b[blo..bhi]: the earliest in a, then in b
find_longest_match(a, b, alo, ahi, blo, bhi) ==
    LET cand == (alo..ahi) \X (blo..bhi)
        len(c) == run_length(a, b, c[1], c[2], ahi, bhi)
        size == IF cand = {} THEN 0 ELSE MaxOf({len(c) : c \in cand})
        i == MinOf({c[1] : c \in {x \in cand : len(x) = size}})
        j == MinOf({c[2] : c \in {x \in cand : len(x) = size /\ x[1] = i}})
    IN IF size = 0 THEN [i |-> alo, j |-> blo, size |-> 0]
       ELSE [i |-> i, j |-> j, size |-> size]

RECURSIVE matching_size(_, _, _, _, _, _)
\* get_matching_blocks: the sizes of the longest block and of the blocks on both sides
matching_size(a, b, alo, ahi, blo, bhi) ==
    IF alo > ahi \/ blo > bhi THEN 0
    ELSE LET m == find_longest_match(a, b, alo, ahi, blo, bhi) IN
         IF m.size = 0 THEN 0
         ELSE m.size + matching_size(a, b, alo, m.i - 1, blo, m.j - 1)
                     + matching_size(a, b, m.i + m.size, ahi, m.j + m.size, bhi)

\* SequenceMatcher(None, a, b).ratio()
ratio(a, b) ==
    IF Len(a) + Len(b) = 0 THEN Ratio(1, 1)
    ELSE Ratio(2 * matching_size(a, b, 1, Len(a), 1, Len(b)), Len(a) + Len(b))

\* SequenceMatcher(None, a, b).quick_ratio(): every character of a matched as often
\* as b holds it
quick_ratio(a, b) ==
    LET seen(i) == Cardinality({j \in 1..i : a[j] = a[i]})
        held(i) == Cardinality({j \in 1..Len(b) : b[j] = a[i]})
        matches == Cardinality({i \in 1..Len(a) : seen(i) <= held(i)})
    IN IF Len(a) + Len(b) = 0 THEN Ratio(1, 1)
       ELSE Ratio(2 * matches, Len(a) + Len(b))

(***************************************************************************)
(* _fuzzy_find_quote                                                       *)
(***************************************************************************)
RECURSIVE best_window_last_tie(_, _, _, _, _)
\* the loop with >= in place of >: among equal scores the last window wins
best_window_last_tie(page_text, quote_lower, i, step, best) ==
    IF i > Len(page_text) - Len(quote_lower) THEN best
    ELSE LET window == SubSeq(page_text, i + 1, i + Len(quote_lower))
             better ==
                 /\ ratio_ge(quick_ratio(quote_lower, window), best.ratio)
                 /\ ratio_ge(ratio(quote_lower, window), best.ratio)
         IN best_window_last_tie(page_text, quote_lower, i + step, step,
                                 IF better
                                 THEN [ratio |-> ratio(quote_lower, window), pos |-> i]
                                 ELSE best)

RECURSIVE best_window(_, _, _, _, _)
\* lines 173-181: the windows at the offsets i, i + step, ...; best = [ratio, pos]
best_window(page_text, quote_lower, i, step, best) ==
    IF i > Len(page_text) - Len(quote_lower) THEN best
    ELSE LET window == SubSeq(page_text, i + 1, i + Len(quote_lower))
             better ==
                 /\ ratio_gt(quick_ratio(quote_lower, window), best.ratio)
                 /\ ratio_gt(ratio(quote_lower, window), best.ratio)
         IN best_window(page_text, quote_lower, i + step, step,
                        IF better
                        THEN [ratio |-> ratio(quote_lower, window), pos |-> i]
                        ELSE best)

RECURSIVE relevant_words(_, _, _, _, _)
\* lines 189-196: the words that overlap the matched range of characters
relevant_words(words, w, char_count, best_pos, quote_len) ==
    IF w > Len(words) THEN <<>>
    ELSE LET word_start == char_count
             word_end == char_count + Len(words[w].text) + 1
         IN (IF word_end > best_pos /\ word_start < best_pos + quote_len
             THEN <<words[w]>> ELSE <<>>)
            \o relevant_words(words, w + 1, word_end, best_pos, quote_len)

\* lines 184-210: the location of the accepted window, if any word overlaps it
fuzzy_location(page, page_num, best_pos, quote_len) ==
    LET matched_text ==
            SubSeq(page.text, best_pos + 1, Min(best_pos + quote_len, Len(page.text)))
        rel == relevant_words(get_words(page), 1, 0, best_pos, quote_len)
        box == [x0 |-> MinOf({rel[w].rect.x0 : w \in 1..Len(rel)}),
                y0 |-> MinOf({rel[w].rect.y0 : w \in 1..Len(rel)}),
                x1 |-> MaxOf({rel[w].rect.x1 : w \in 1..Len(rel)}),
                y1 |-> MaxOf({rel[w].rect.y1 : w \in 1..Len(rel)})]
    IN IF Len(rel) = 0 THEN <<>>
       ELSE <<location(page, page_num, box, matched_text)>>

RECURSIVE fuzzy_pass(_, _, _, _)
\* lines 161-211: the pages from page_num (0-based) on, until one is accepted
fuzzy_pass(pdf, needle, threshold, page_num) ==
    IF page_num >= Len(pdf) THEN <<>>
    ELSE LET page == pdf[page_num + 1]
             page_text == lower(page.text)
             quote_lower == lower(needle)
             quote_len == Len(quote_lower)
             best == best_window(page_text, quote_lower, 0, Max(1, quote_len \div 10),
                                 [ratio |-> Ratio(0, 1), pos |-> -1])
         IN IF Len(page_text) < quote_len
            THEN fuzzy_pass(pdf, needle, threshold, page_num + 1)
            ELSE IF ratio_ge(best.ratio, threshold) /\ best.pos >= 0
                 THEN fuzzy_location(page, page_num, best.pos, quote_len)
                 ELSE fuzzy_pass(pdf, needle, threshold, page_num + 1)

_fuzzy_find_quote(pdf, needle, threshold) == fuzzy_pass(pdf, needle, threshold, 0)

\* find_quote_locations, with the record of whether the fuzzy fallback was called
find_quote_locations_run(pdf, needle) ==
    LET found == exact_pass(pdf, needle, 0, <<>>) IN
    IF Len(found) = 0
    THEN [locations |-> _fuzzy_find_quote(pdf, needle, Ratio(85, 100)), fuzzy |-> TRUE]
    ELSE [locations |-> found, fuzzy |-> FALSE]

find_quote_locations(pdf, needle) == find_quote_locations_run(pdf, needle).locations

(***************************************************************************)
(* _map_source_locations.  The article's PDF has one page, with the text   *)
(* "q".                                                                    *)
(***************************************************************************)
MkPage(t, w, h, y) == [text |-> t, width |-> w, height |-> h, top |-> y]

ArticlePdf == <<MkPage(<<"q">>, 320, 96, 24)>>

\* a location as the JSON value stored in source_locations
location_node(loc) ==
    Dict(<<"page", "x0", "y0", "x1", "y1", "text">>,
         <<Num(loc.page, 0), Num(loc.x0, 4), Num(loc.y0, 4), Num(loc.x1, 4),
           Num(loc.y1, 4), Text(loc.text)>>)

location_nodes(found) == [l \in 1..Len(found) |-> location_node(found[l])]

locations_of(q) == location_nodes(find_quote_locations(ArticlePdf, chars_of(q)))

RECURSIVE locate_all(_, _)
\* lines 402-405: the locations of the non-empty string quotes, from the i-th on
locate_all(quotes, i) ==
    IF i > Len(quotes) THEN <<>>
    ELSE (IF quotes[i].k = "str" /\ chars_of(quotes[i]) # <<>> THEN locations_of(quotes[i])
          ELSE <<>>)
         \o locate_all(quotes, i + 1)

\* all_quotes.extend(x.get("quotes", [])): [v |-> the quotes added, exc |-> raised]
quotes_of(n) ==
    LET q == GetDefault(n, "quotes", List(<<>>)) IN
    IF IsList(q) THEN [v |-> q.vals, exc |-> FALSE]
    ELSE IF q.k = "str"
         THEN [v |-> [c \in 1..Len(chars_of(q)) |-> Str(chars_of(q)[c])], exc |-> FALSE]
    ELSE IF IsDict(q) THEN [v |-> [i \in 1..Len(q.keys) |-> Str(q.keys[i])], exc |-> FALSE]
    ELSE [v |-> <<>>, exc |-> TRUE]

RECURSIVE sub_quotes(_, _)
\* lines 393-395: the quotes of the sub-fields of a section, from the i-th on
sub_quotes(sec, i) ==
    IF i > Len(sec.vals) THEN [v |-> <<>>, exc |-> FALSE]
    ELSE LET here == IF IsDict(sec.vals[i]) /\ HasKey(sec.vals[i], "quotes")
                     THEN quotes_of(sec.vals[i]) ELSE [v |-> <<>>, exc |-> FALSE]
             rest == sub_quotes(sec, i + 1)
         IN [v |-> here.v \o rest.v, exc |-> here.exc \/ rest.exc]

\* lines 391-406 (and 411-424): source_locations of one section or list element
map_section(sec) ==
    LET subs == sub_quotes(sec, 1)
        own == IF HasKey(sec, "quotes") THEN quotes_of(sec) ELSE [v |-> <<>>, exc |-> FALSE]
        all_quotes == subs.v \o own.v
    IN IF subs.exc \/ own.exc THEN Raise(sec)
       ELSE IF Len(all_quotes) > 0
            THEN Ok(SetKey(sec, "source_locations", List(locate_all(all_quotes, 1))))
            ELSE Ok(sec)

RECURSIVE map_list(_, _)
RECURSIVE map_list_from(_, _, _)
\* lines 409-424: the dict items of a list, from the i-th on
map_list(lst, i) ==
    IF i > Len(lst.vals) THEN Ok(lst)
    ELSE map_list_from(lst, i, IF IsDict(lst.vals[i]) THEN map_section(lst.vals[i])
                               ELSE Ok(lst.vals[i]))

\* the i-th item of the list was mapped with the result r
map_list_from(lst, i, r) ==
    IF r.exc THEN Raise(SetVal(lst, i, r.v))
    ELSE map_list(SetVal(lst, i, r.v), i + 1)

RECURSIVE map_items(_, _)
RECURSIVE map_items_from(_, _, _)
\* lines 389-424: the items of data, from the i-th on
map_items(d, i) ==
    IF i > Len(d.vals) THEN Ok(d)
    ELSE map_items_from(d, i, IF IsDict(d.vals[i]) THEN map_section(d.vals[i])
                              ELSE IF IsList(d.vals[i]) THEN map_list(d.vals[i], 1)
                              ELSE Ok(d.vals[i]))

\* the i-th item of data was mapped with the result r
map_items_from(d, i, r) ==
    IF r.exc THEN Raise(SetVal(d, i, r.v))
    ELSE map_items(SetVal(d, i, r.v), i + 1)

_map_source_locations(d) == IF ~IsDict(d) THEN Raise(d) ELSE map_items(d, 1)

\* lines 154-164: the sections stored on the Extraction row
StoredKeys ==
    <<"study_design", "population", "intervention", "comparator", "outcomes", "setting",
      "follow_up", "funding", "limitations", "conclusions", "custom_fields">>

stored_sections(d) == Dict(StoredKeys, [i \in 1..Len(StoredKeys) |-> Get(d, StoredKeys[i])])

(***************************************************************************)
(* validation_service.py.  A float is the exact fraction num / 10^dec (the *)
(* texts and numbers of the model are short decimals; exponents, inf and   *)
(* nan are not written).  A warning is [index, field, severity,            *)
(* check_name]: field_path is "outcomes[index].field"; its message is not  *)
(* modelled.                                                               *)
(***************************************************************************)
NoFloat == [some |-> FALSE, num |-> 0, dec |-> 0]
Float(n, d) == [some |-> TRUE, num |-> n, dec |-> d]

RECURSIVE pow10(_)
pow10(d) == IF d = 0 THEN 1 ELSE 10 * pow10(d - 1)

\* a < b, a <= b, a + b, a - b, abs(a), k * a on floats
float_lt(a, b) == a.num * pow10(b.dec) < b.num * pow10(a.dec)
float_le(a, b) == a.num * pow10(b.dec) <= b.num * pow10(a.dec)
float_add(a, b) == Float(a.num * pow10(b.dec) + b.num * pow10(a.dec), a.dec + b.dec)
float_sub(a, b) == Float(a.num * pow10(b.dec) - b.num * pow10(a.dec), a.dec + b.dec)
float_abs(a) == Float(IF a.num < 0 THEN -a.num ELSE a.num, a.dec)
float_times(k, a) == Float(k * a.num, a.dec)

Digits == <<"0", "1", "2", "3", "4", "5", "6", "7", "8", "9">>
IsDigit(c) == \E v \in 1..10 : Digits[v] = c
digit_value(c) == (CHOOSE v \in 1..10 : Digits[v] = c) - 1

RECURSIVE int_of_digits(_)
int_of_digits(cs) ==
    IF Len(cs) = 0 THEN 0
    ELSE 10 * int_of_digits(SubSeq(cs, 1, Len(cs) - 1)) + digit_value(cs[Len(cs)])

RECURSIVE digits_of_int(_)
digits_of_int(n) ==
    IF n < 10 THEN <<Digits[n + 1]>>
    ELSE digits_of_int(n \div 10) \o <<Digits[(n % 10) + 1]>>

RECURSIVE last_digits(_, _)
\* the last d decimal digits of n
last_digits(n, d) ==
    IF d = 0 THEN <<>> ELSE last_digits(n \div 10, d - 1) \o <<Digits[(n % 10) + 1]>>

RECURSIVE strip_spaces(_)
\* str.strip()
strip_spaces(cs) ==
    IF Len(cs) = 0 THEN cs
    ELSE IF cs[1] = " " THEN strip_spaces(Tail(cs))
    ELSE IF cs[Len(cs)] = " " THEN strip_spaces(SubSeq(cs, 1, Len(cs) - 1))
    ELSE cs

\* str.replace(c, "")
remove_char(cs, c) == SelectSeq(cs, LAMBDA x : x # c)

\* float(text): [sign] digits [. digits], spaces around it allowed; NoFloat for ValueError
float_of_text(cs) ==
    LET t == strip_spaces(cs)
        signed == Len(t) > 0 /\ t[1] \in {"-", "+"}
        body == IF signed THEN Tail(t) ELSE t
        points == {i \in 1..Len(body) : body[i] = "."}
        digits == remove_char(body, ".")
        dec == IF points = {} THEN 0 ELSE Len(body) - (CHOOSE i \in points : TRUE)
        n == int_of_digits(digits)
    IN IF /\ Len(digits) > 0
          /\ \A i \in 1..Len(digits) : IsDigit(digits[i])
          /\ Cardinality(points) <= 1
       THEN Float(IF signed /\ t[1] = "-" THEN -n ELSE n, dec)
       ELSE NoFloat

\* str(value)
str_of(val) ==
    CASE val.k = "str" -> chars_of(val)
      [] val.k = "num" ->
            LET a == IF val.num < 0 THEN -val.num ELSE val.num IN
            (IF val.num < 0 THEN <<"-">> ELSE <<>>)
            \o digits_of_int(a \div pow10(val.dec))
            \o (IF val.dec = 0 THEN <<>> ELSE <<".">> \o last_digits(a, val.dec))
      [] val.k = "bool" -> IF val.s = "true" THEN <<"T", "r", "u", "e">>
                           ELSE <<"F", "a", "l", "s", "e">>
      [] val.k = "null" -> <<"N", "o", "n", "e">>
      [] val.k = "list" -> <<"[", "]">>
      [] OTHER -> <<"{", "}">>

\* lines 22-26
_get_field_value(field_data) ==
    IF IsDict(field_data) /\ HasKey(field_data, "value") THEN Get(field_data, "value")
    ELSE field_data

\* lines 29-36: float(val), None for None and for what float() rejects
_try_float(val) ==
    CASE val.k = "null" -> NoFloat
      [] val.k = "num" -> Float(val.num, val.dec)
      [] val.k = "bool" -> Float(IF val.s = "true" THEN 1 ELSE 0, 0)
      [] val.k = "str" -> float_of_text(chars_of(val))
      [] OTHER -> NoFloat

\* lines 210-219
_parse_p_value(raw) ==
    IF raw = Null THEN NoFloat
    ELSE LET t == lower(strip_spaces(str_of(raw)))
             r == remove_char(remove_char(remove_char(remove_char(t, "p"), "="), "<"), ">")
         IN float_of_text(strip_spaces(r))

Warning(i, field, severity, check_name) ==
    [index |-> i, field |-> field, severity |-> severity, check_name |-> check_name]

\* results of the checks: [v |-> the warnings, exc |-> it raised]
Warned(ws) == [v |-> ws, exc |-> FALSE]
Crashed == [v |-> <<>>, exc |-> TRUE]

\* _try_float(_get_field_value(outcome.get(key)))
number_at(outcome, key) == _try_float(_get_field_value(Get(outcome, key)))

\* line 57, for total_n > 0: abs(combined - total_n) / total_n > 0.05
discrepant(combined, total_n) ==
    float_lt(total_n, float_times(20, float_abs(float_sub(combined, total_n))))

\* lines 52-67: the warnings of the outcome at index i
sample_size_outcome(outcome, i, total_n) ==
    LET n_int == number_at(outcome, "sample_size_intervention")
        n_ctrl == number_at(outcome, "sample_size_control")
    IN IF n_int.some /\ n_ctrl.some
          /\ float_lt(Float(0, 0), total_n)
          /\ discrepant(float_add(n_int, n_ctrl), total_n)
       THEN <<Warning(i, "sample_size", "warning", "sample_size_consistency")>>
       ELSE <<>>

RECURSIVE flatten(_)
flatten(ss) == IF Len(ss) = 0 THEN <<>> ELSE Head(ss) \o flatten(Tail(ss))

\* for i, outcome in enumerate(outcomes), with the warnings check(outcome, i) of an
\* outcome; outcome.get raises on an outcome that is not a dict
each_outcome(outcomes, check(_, _)) ==
    IF \E o \in 1..Len(outcomes.vals) : ~IsDict(outcomes.vals[o]) THEN Crashed
    ELSE Warned(flatten([o \in 1..Len(outcomes.vals) |-> check(outcomes.vals[o], o - 1)]))

\* lines 39-69
_check_sample_size_consistency(d) ==
    LET pop == GetDefault(d, "population", EmptyDict)
        total_n == _try_float(_get_field_value(Get(pop, "sample_size")))
        outcomes == GetDefault(d, "outcomes", List(<<>>))
        check(outcome, i) == sample_size_outcome(outcome, i, total_n)
    IN IF ~IsDict(pop) THEN Crashed
       ELSE IF ~total_n.some THEN Warned(<<>>)
       ELSE IF ~IsList(outcomes) THEN Warned(<<>>)
       ELSE each_outcome(outcomes, check)

\* lines 87-103 with events > n replaced by events >= n
events_arm_or_equal(outcome, i, events_key, n_key) ==
    LET events == number_at(outcome, events_key)
        n == number_at(outcome, n_key)
    IN (IF events.some /\ n.some /\ float_le(n, events)
        THEN <<Warning(i, events_key, "error", "events_exceed_sample_size")>> ELSE <<>>)
       \o (IF events.some /\ float_lt(events, Float(0, 0))
           THEN <<Warning(i, events_key, "error", "negative_events")>> ELSE <<>>)

\* lines 85-103: the warnings of one arm of the outcome at index i
events_arm(outcome, i, events_key, n_key) ==
    LET events == number_at(outcome, events_key)
        n == number_at(outcome, n_key)
    IN (IF events.some /\ n.some /\ float_lt(n, events)
        THEN <<Warning(i, events_key, "error", "events_exceed_sample_size")>> ELSE <<>>)
       \o (IF events.some /\ float_lt(events, Float(0, 0))
           THEN <<Warning(i, events_key, "error", "negative_events")>> ELSE <<>>)

\* lines 72-105
_check_events_vs_sample_size(d) ==
    LET outcomes == GetDefault(d, "outcomes", List(<<>>))
        check(outcome, i) ==
            events_arm(outcome, i, "events_intervention", "sample_size_intervention")
            \o events_arm(outcome, i, "events_control", "sample_size_control")
    IN IF ~IsList(outcomes) THEN Warned(<<>>)
       ELSE each_outcome(outcomes, check)

RATIO_MEASURES == {"OR", "RR", "HR"}

\* line 139 with the null value of a difference measure for every measure
null_value_zero(effect_measure) == Float(0, 0)

\* line 139
null_value(effect_measure) ==
    IF InLabels(effect_measure, RATIO_MEASURES) THEN Float(1, 0) ELSE Float(0, 0)

\* lines 116-162: the warnings of the outcome at index i
ci_outcome(outcome, i) ==
    LET ci_lower == number_at(outcome, "ci_lower")
        ci_upper == number_at(outcome, "ci_upper")
        p_val == _parse_p_value(_get_field_value(Get(outcome, "p_value")))
        effect_measure == _get_field_value(Get(outcome, "effect_measure"))
        null == null_value(effect_measure)
        ci_crosses_null == float_le(ci_lower, null) /\ float_le(null, ci_upper)
        p_nonsig == float_lt(Float(5, 2), p_val)
    IN (IF ci_lower.some /\ ci_upper.some /\ float_lt(ci_upper, ci_lower)
        THEN <<Warning(i, "ci_lower", "error", "ci_bounds_inverted")>> ELSE <<>>)
       \o (IF ci_lower.some /\ ci_upper.some /\ p_val.some
              /\ ((ci_crosses_null /\ ~p_nonsig) \/ (~ci_crosses_null /\ p_nonsig))
           THEN <<Warning(i, "p_value", "warning", "ci_pvalue_disagreement")>>
           ELSE <<>>)

\* lines 108-164
_check_ci_consistency(d) ==
    LET outcomes == GetDefault(d, "outcomes", List(<<>>)) IN
    IF ~IsList(outcomes) THEN Warned(<<>>)
    ELSE each_outcome(outcomes, ci_outcome)

\* lines 180-194 with effect <= 0 replaced by effect < 0
ratio_plausibility_strict(effect, measure, i) ==
    IF ~InLabels(measure, RATIO_MEASURES) THEN <<>>
    ELSE IF float_lt(effect, Float(0, 0))
         THEN <<Warning(i, "effect_size", "error", "negative_ratio_measure")>>
    ELSE IF float_lt(Float(100, 0), effect)
         THEN <<Warning(i, "effect_size", "warning", "extreme_effect_size")>>
    ELSE <<>>

\* lines 180-194
ratio_plausibility(effect, measure, i) ==
    IF ~InLabels(measure, RATIO_MEASURES) THEN <<>>
    ELSE IF float_le(effect, Float(0, 0))
         THEN <<Warning(i, "effect_size", "error", "negative_ratio_measure")>>
    ELSE IF float_lt(Float(100, 0), effect)
         THEN <<Warning(i, "effect_size", "warning", "extreme_effect_size")>>
    ELSE <<>>

\* lines 197-205
negative_sample_size(outcome, i, field) ==
    LET n == number_at(outcome, field) IN
    IF n.some /\ float_lt(n, Float(0, 0))
    THEN <<Warning(i, field, "error", "negative_sample_size")>> ELSE <<>>

\* lines 175-205: the warnings of the outcome at index i
effect_outcome(outcome, i) ==
    LET effect == number_at(outcome, "effect_size")
        measure == _get_field_value(Get(outcome, "effect_measure"))
    IN IF ~effect.some \/ measure = Null THEN <<>>
       ELSE ratio_plausibility(effect, measure, i)
            \o negative_sample_size(outcome, i, "sample_size_intervention")
            \o negative_sample_size(outcome, i, "sample_size_control")

\* lines 167-207
_check_effect_size_plausibility(d) ==
    LET outcomes == GetDefault(d, "outcomes", List(<<>>)) IN
    IF ~IsList(outcomes) THEN Warned(<<>>)
    ELSE each_outcome(outcomes, effect_outcome)

\* lines 12-19
validate_extraction(d) ==
    LET a == _check_sample_size_consistency(d)
        b == _check_events_vs_sample_size(d)
        c == _check_ci_consistency(d)
        e == _check_effect_size_plausibility(d)
    IN IF a.exc \/ b.exc \/ c.exc \/ e.exc THEN Crashed
       ELSE Warned(a.v \o b.v \o c.v \o e.v)

(***************************************************************************)
(* Records given to the operations.                                        *)
(***************************************************************************)
\* marks a key the oracle left out of a Field
Absent == [k |-> "absent", s |-> "", num |-> 0, dec |-> 0, keys |-> <<>>, vals |-> <<>>]

OptKey(key, v) == IF v = Absent THEN <<>> ELSE <<key>>
OptVal(v) == IF v = Absent THEN <<>> ELSE <<v>>

\* the Field {value, confidence, missing_reason, quotes} without its absent keys
MkField(value, conf, reason, quotes) ==
    Dict(<<"value">> \o OptKey("confidence", conf) \o OptKey("missing_reason", reason)
             \o OptKey("quotes", quotes),
         <<value>> \o OptVal(conf) \o OptVal(reason) \o OptVal(quotes))

MkFields(values, confs, reasons, quoteses) ==
    {MkField(v, c, r, q) : v \in values, c \in confs, r \in reasons, q \in quoteses}

\* a list stands for any unhashable JSON value the oracle may put in a label's place
Unhashable == List(<<>>)

OracleConfidences ==
    {Absent, Null, Str("high"), Str("medium"), Str("low"), Str("bogus"), Unhashable}

\* Fields as the oracle may return them
OracleFields ==
    MkFields({Null, Str("x")}, OracleConfidences,
             {Absent, Str("unclear"), Str("bogus")}, {Absent, List(<<Str("q")>>)})

\* a few Fields for the records that hold two of them
FewFields ==
    MkFields({Null, Str("x")}, {Absent, Str("high"), Str("bogus")}, {Absent}, {Absent})

RECURSIVE Chain(_, _)
\* the nodes that nest a Field of F under at most d sections or lists
Chain(d, F) ==
    IF d = 0 THEN F
    ELSE F \cup {Dict(<<"a">>, <<n>>) : n \in Chain(d - 1, F)}
           \cup {List(<<n>>) : n \in Chain(d - 1, F)}

\* records with one Field at every shape of nesting, and records with two Fields
NormRecords ==
    {Dict(<<"study_design">>, <<n>>) : n \in Chain(MaxDepth, OracleFields)}
    \cup {Dict(<<"study_design">>, <<Dict(<<"type", "setting">>, <<f, g>>)>>) :
              f \in FewFields, g \in FewFields}

RECURSIVE FieldsOf(_)
\* every dict node with a "value" key, at any depth
FieldsOf(n) ==
    (IF IsDict(n) /\ HasKey(n, "value") THEN {n} ELSE {})
    \cup UNION {FieldsOf(n.vals[i]) : i \in 1..Len(n.vals)}

RECURSIVE FieldPairs(_, _)
\* <<Field of b, node of a at the same path>>, for two trees of the same shape
FieldPairs(b, a) ==
    IF IsDict(b) /\ HasKey(b, "value") THEN {<<b, a>>}
    ELSE UNION {FieldPairs(b.vals[i], a.vals[i]) : i \in 1..Len(b.vals)}

(***************************************************************************)
(* Specification of the Field Normalizer and the Completeness Analyzer.    *)
(***************************************************************************)
IdleParse == text = <<>> /\ parsed = [status |-> "none", value |-> "", raw_text |-> <<>>]
IdleGrade ==
    /\ study_design = <<>>
    /\ domain_ratings = Null
    /\ upgrade_factors = Null
    /\ certainty = ""
NotPersisted ==
    [stored |-> FALSE, record |-> Null, completeness_summary |-> NewStats,
     validation_warnings |-> <<>>, field_review_status |-> <<>>]
IdleLocate ==
    /\ doc = <<>>
    /\ quote = <<>>
    /\ locations = <<>>
    /\ first_locations = <<>>
    /\ fuzzy_called = FALSE
    /\ calls = 0
IdleValidate == validation_warnings = <<>>
NoAssessment ==
    [ratings |-> Null, upgrades |-> Null, overall_certainty |-> "", is_overridden |-> FALSE]
NoRequest == [made |-> 0, id |-> 0, domain |-> "", new_rating |-> "", status |-> 0]
IdleAssess == assessments = <<>> /\ returned = NoAssessment /\ request = NoRequest
IdleVersion == rows = <<>> /\ worker = <<>>
IdleRun ==
    /\ response = Null
    /\ verify_text = <<>>
    /\ first_stats = NewStats
    /\ persisted = NotPersisted
    /\ verify_failed = FALSE
    /\ oracle_calls = 0

InitNormalize ==
    /\ pc = "normalize"
    /\ data \in NormRecords
    /\ before = data
    /\ verification = Null
    /\ raised = FALSE
    /\ stats = NewStats
    /\ IdleParse /\ IdleGrade /\ IdleRun /\ IdleLocate /\ IdleValidate /\ IdleAssess /\ IdleVersion

\* _normalize_confidence_metadata(data), in place
Normalize ==
    /\ pc = "normalize"
    /\ LET r == _normalize_confidence_metadata(data) IN
         /\ data' = r.v
         /\ raised' = r.exc
    /\ pc' = "normalized"
    /\ UNCHANGED <<assessVars, versionVars, locateVars, validation_warnings,
                   before, verification, stats, parseVars, gradeVars, runVars>>

\* stats = _compute_completeness(data) on the normalized record
ComputeCompleteness ==
    /\ pc = "normalized"
    /\ ~raised
    /\ LET r == _compute_completeness(data) IN
         /\ stats' = r.v
         /\ raised' = r.exc
    /\ pc' = "counted"
    /\ UNCHANGED <<assessVars, versionVars, locateVars, validation_warnings,
                   data, before, verification, parseVars, gradeVars, runVars>>

NextNormalize == Normalize \/ ComputeCompleteness

SpecNormalize == InitNormalize /\ [][NextNormalize]_vars

Normalized == pc \in {"normalized", "counted"} /\ ~raised

\* C1: after _normalize_confidence_metadata has run, every Field of the record, at any
\* depth, has value None exactly when its missing_reason is a valid label, and has no
\* missing_reason when its value is present
C1_MissingReasonInvariant ==
    Normalized =>
        \A f \in FieldsOf(data) :
            /\ (Get(f, "value") = Null) <=> InLabels(Get(f, "missing_reason"), VALID_MISSING_REASONS)
            /\ (Get(f, "value") # Null) => (Get(f, "missing_reason") = Null)

\* C8: after normalization, every Field with a present value has a valid confidence:
\* the oracle's valid label unchanged, or "low" when it was absent or invalid
C8_PresentValueHasConfidence ==
    Normalized =>
        \A p \in FieldPairs(before, data) :
            (Get(p[2], "value") # Null) =>
                /\ InLabels(Get(p[2], "confidence"), VALID_CONFIDENCE)
                /\ InLabels(Get(p[1], "confidence"), VALID_CONFIDENCE)
                       => Get(p[2], "confidence") = Get(p[1], "confidence")
                /\ ~InLabels(Get(p[1], "confidence"), VALID_CONFIDENCE)
                       => Get(p[2], "confidence") = Str("low")

\* C9: after normalization, every Field whose value is None has confidence None
C9_AbsentValueHasNoConfidence ==
    Normalized =>
        \A f \in FieldsOf(data) :
            (Get(f, "value") = Null) => (Get(f, "confidence") = Null)

\* C10: the summary of a normalized record satisfies extracted + missing = total_fields
\* and high + medium + low = extracted
C10_CountsConsistent ==
    (pc = "counted" /\ ~raised) =>
        /\ stats.extracted + stats.missing = stats.total_fields
        /\ stats.high_confidence + stats.medium_confidence + stats.low_confidence
               = stats.extracted

\* a record with an extracted and a missing Field has been counted
C10_Witness ==
    pc = "counted" /\ ~raised /\ stats.extracted >= 1 /\ stats.missing >= 1

(***************************************************************************)
(* Specification of the Verification Merger.                               *)
(***************************************************************************)
\* Fields of a first-pass record, normalized or not
OriginalFields ==
    MkFields({Null, Str("x")}, {Absent, Null, Str("low"), Str("high")}, {Str("unclear")},
             {Absent})

\* Fields of a verification patch, as the oracle returns them
PatchFields ==
    MkFields({Null, Str("y")},
             {Absent, Null, Str("low"), Str("medium"), Str("high"), Str("bogus"), Unhashable},
             {Absent}, {Absent})

TwoFields(F, G) ==
    {Dict(<<"study_design">>, <<Dict(<<"type", "setting">>, <<f, g>>)>>) : f \in F, g \in G}

MergeOriginals ==
    {Dict(<<"study_design">>, <<n>>) : n \in Chain(MaxDepth, OriginalFields)}

MergePatches ==
    {Dict(<<"study_design">>, <<n>>) : n \in Chain(MaxDepth, PatchFields)}

\* records with a section and a list of outcomes, and patches that lack keys of the
\* record, bring keys it lacks, and hold fewer or more outcomes than it
FrameFields ==
    {MkField(Str("x"), Str("low"), Absent, Absent), MkField(Null, Absent, Absent, Absent)}
FramePatchFields ==
    {MkField(Str("y"), Str("high"), Absent, Absent), MkField(Null, Str("low"), Absent, Absent)}

FrameOriginals ==
    {Dict(<<"study_design", "outcomes">>,
          <<Dict(<<"type", "setting">>, <<f, g>>),
            List([i \in 1..len |-> Dict(<<"p_value">>, <<o[i]>>)])>>) :
         f \in FrameFields, g \in FrameFields, len \in 1..2, o \in [1..2 -> FrameFields]}

FramePatchOutcomes ==
    UNION {{List([i \in 1..len |-> e[i]]) :
                e \in [1..len -> {Null} \cup {Dict(<<"p_value">>, <<q>>) :
                                                 q \in FramePatchFields}]} :
               len \in 0..3}

FramePatches ==
    {Dict(OptKey("funding", extra) \o OptKey("outcomes", outcomes)
              \o OptKey("study_design", design),
          OptVal(extra) \o OptVal(outcomes) \o OptVal(design)) :
         extra \in {Absent,
                    Dict(<<"source">>, <<MkField(Str("y"), Str("high"), Absent, Absent)>>)},
         outcomes \in {Absent} \cup FramePatchOutcomes,
         design \in {Absent}
                    \cup {Dict(<<"type">>, <<q>>) : q \in FramePatchFields}
                    \cup {Dict(<<"design_notes", "type">>, <<q, q>>) : q \in FramePatchFields}}

TwoFieldOriginals == TwoFields(FewFields, FewFields)
TwoFieldPatches == TwoFields(PatchFields, PatchFields)

InitMerge ==
    /\ pc = "merge"
    /\ \/ data \in MergeOriginals /\ verification \in MergePatches
       \/ data \in TwoFieldOriginals /\ verification \in TwoFieldPatches
       \/ data \in FrameOriginals /\ verification \in FramePatches
    /\ before = data
    /\ raised = FALSE
    /\ stats = NewStats
    /\ IdleParse /\ IdleGrade /\ IdleRun /\ IdleLocate /\ IdleValidate /\ IdleAssess /\ IdleVersion

\* data = _merge_verification_pass(data, verification), in place
Merge ==
    /\ pc = "merge"
    /\ LET r == _merge_verification_pass(data, verification) IN
         /\ data' = r.v
         /\ raised' = r.exc
    /\ pc' = "merged"
    /\ UNCHANGED <<assessVars, versionVars, locateVars, validation_warnings,
                   before, verification, stats, parseVars, gradeVars, runVars>>

NextMerge == Merge

SpecMerge == InitMerge /\ [][NextMerge]_vars

IsField(n) == IsDict(n) /\ HasKey(n, "value")

RECURSIVE FieldTriples(_, _, _, _, _)
\* <<original Field, patch Field, node of the result, visited>> at every path that holds
\* a Field in both o and p.  byKey: the last step of the path was a dict key; visited:
\* the path ends in a key and no list on it is a direct element of another list
FieldTriples(o, p, r, visited, byKey) ==
    IF IsField(o) /\ IsField(p) THEN {<<o, p, r, visited /\ byKey>>}
    ELSE IF IsDict(o) /\ IsDict(p)
         THEN UNION {FieldTriples(Get(o, p.keys[i]), p.vals[i], Get(r, p.keys[i]),
                                  visited, TRUE) :
                         i \in {j \in 1..Len(p.keys) : HasKey(o, p.keys[j])}}
    ELSE IF IsList(o) /\ IsList(p)
         THEN UNION {FieldTriples(o.vals[i], p.vals[i], r.vals[i], visited /\ byKey, FALSE) :
                         i \in {j \in 1..Len(p.vals) : j <= Len(o.vals)}}
    ELSE {}

\* the Fields at the paths common to the record before the merge, the patch and the result
CommonFields == FieldTriples(before, verification, data, TRUE, FALSE)

\* the ordering high(3) > medium(2) > low(1); anything else has the lowest rank
LabelRank(conf) ==
    IF conf = Str("high") THEN 3
    ELSE IF conf = Str("medium") THEN 2
    ELSE IF conf = Str("low") THEN 1
    ELSE 0

\* the rank of a Field's confidence: a Field without a confidence key counts as low,
\* a null or unrecognised confidence ranks below low
FieldRank(f) == IF HasKey(f, "confidence") THEN LabelRank(Get(f, "confidence")) ELSE 1

\* C2: merging never lowers the confidence rank of a Field of the original and never
\* turns a present value into None, for any patch
C2_MergeMonotone ==
    (pc = "merged") =>
        \A p \in FieldPairs(before, data) :
            /\ LabelRank(Get(p[2], "confidence")) >= LabelRank(Get(p[1], "confidence"))
            /\ (Get(p[1], "value") # Null) => (Get(p[2], "value") # Null)

RECURSIVE Texts(_)
\* the token sequences of length at most n
Texts(n) ==
    IF n = 0 THEN {<<>>}
    ELSE Texts(n - 1) \cup {Append(t, c) : t \in {u \in Texts(n - 1) : Len(u) = n - 1},
                                             c \in Tokens}

NotParsed == [status |-> "none", value |-> "", raw_text |-> <<>>]

InitParse ==
    /\ pc = "parse"
    /\ text \in Texts(MaxTextLen)
    /\ parsed = NotParsed
    /\ data = Null /\ before = Null /\ verification = Null
    /\ raised = FALSE
    /\ stats = NewStats
    /\ IdleGrade /\ IdleRun /\ IdleLocate /\ IdleValidate /\ IdleAssess /\ IdleVersion

\* parsed = _parse_extraction_response(text)
Parse ==
    /\ pc = "parse"
    /\ parsed' = _parse_extraction_response(text)
    /\ raised' = (parsed'.status = "raised")
    /\ pc' = "parsed"
    /\ UNCHANGED <<assessVars, versionVars, locateVars, validation_warnings,
                   data, before, verification, stats, text, gradeVars, runVars>>

NextParse == Parse

SpecParse == InitParse /\ [][NextParse]_vars

\* C4: _parse_extraction_response never raises: for any oracle text, fenced, unfenced,
\* with an unclosed fence or not JSON, it returns the parsed value or the degraded record
C4_ParseNeverRaises ==
    (pc = "parsed") => (~raised /\ parsed.status \in {"json", "degraded"})

(***************************************************************************)
(* Specification of the Certainty Calculator.                              *)
(***************************************************************************)
RandomizedTrial ==
    <<"R", "a", "n", "d", "o", "m", "i", "z", "e", "d", " ", "c", "o", "n", "t", "r",
      "o", "l", "l", "e", "d", " ", "t", "r", "i", "a", "l">>
CohortStudy == <<"c", "o", "h", "o", "r", "t", " ", "s", "t", "u", "d", "y">>

Designs ==
    {RandomizedTrial, CohortStudy, <<"R", "C", "T">>,
     <<"r", "a", "n", "d", "o", "m", "i", "s", "e", "d">>, <<>>}

FewDesigns == {<<"R", "C", "T">>, CohortStudy}

Rating(r) == Dict(<<"rating">>, <<Str(r)>>)
Applicable(b) == Dict(<<"applicable">>, <<Bool(b)>>)

\* entries as the oracle is asked to give them, or left out
DomainEntries == {Absent, Rating("no_serious"), Rating("serious"), Rating("very_serious")}
FactorEntries == {Applicable(TRUE), Applicable(FALSE)}
\* entries that are empty, null, or carry an unrecognised, null or unhashable rating
IrregularDomainEntries ==
    {EmptyDict, Null, Rating("bogus"), Dict(<<"rating">>, <<Null>>),
     Dict(<<"rating">>, <<Unhashable>>)}
IrregularFactorEntries == {Absent, EmptyDict, Null}

RECURSIVE MkDict(_, _, _)
\* the dict of the entries e[i], keyed by names[i], without the absent ones
MkDict(names, e, i) ==
    IF i > Len(names) THEN EmptyDict
    ELSE LET rest == MkDict(names, e, i + 1) IN
         IF e[i] = Absent THEN rest
         ELSE Dict(<<names[i]>> \o rest.keys, <<e[i]>> \o rest.vals)

DomainSlots == 1..Len(downgrade_domains)
FactorSlots == 1..Len(upgrade_names)

\* mappings with at most MaxIrregular irregular entries, the others taken from base
IrregularMappings(slots, base, irregular, n) ==
    UNION {UNION {{[i \in slots |-> IF i \in S THEN irr[i] ELSE reg[i]] :
                       reg \in [slots -> base]} :
                  irr \in [S -> irregular]} :
           S \in {T \in SUBSET slots : Cardinality(T) <= n}}

GradeInputs ==
    ([d : Designs, r : [DomainSlots -> DomainEntries], u : [FactorSlots -> FactorEntries]])
    \cup UNION {[d : FewDesigns,
                 r : IrregularMappings(DomainSlots, {Rating("no_serious"), Rating("serious")},
                                       IrregularDomainEntries, n),
                 u : IrregularMappings(FactorSlots, FactorEntries, IrregularFactorEntries,
                                       MaxIrregular - n)] :
                   n \in 0..MaxIrregular}

InitGrade ==
    /\ pc = "grade"
    /\ \E g \in GradeInputs :
         /\ study_design = g.d
         /\ domain_ratings = MkDict(downgrade_domains, g.r, 1)
         /\ upgrade_factors = MkDict(upgrade_names, g.u, 1)
    /\ certainty = ""
    /\ data = Null /\ before = Null /\ verification = Null
    /\ raised = FALSE
    /\ stats = NewStats
    /\ IdleParse /\ IdleRun /\ IdleLocate /\ IdleValidate /\ IdleAssess /\ IdleVersion

\* certainty = compute_overall_certainty(study_design, domain_ratings, upgrade_factors)
ComputeCertainty ==
    /\ pc = "grade"
    /\ LET r == compute_overall_certainty(study_design, domain_ratings, upgrade_factors) IN
         /\ certainty' = r.v
         /\ raised' = r.exc
    /\ pc' = "graded"
    /\ UNCHANGED <<assessVars, versionVars, locateVars, validation_warnings,
                   data, before, verification, stats, parseVars, study_design,
                   domain_ratings, upgrade_factors, runVars>>

NextGrade == ComputeCertainty

SpecGrade == InitGrade /\ [][NextGrade]_vars

\* the rating of a domain, "" when the domain or its rating is not given as a string
RatingOf(ratings, name) ==
    LET e == Get(ratings, name) IN
    IF IsDict(e) /\ Get(e, "rating").k = "str" THEN Get(e, "rating").s ELSE ""

\* D: 1 for each serious domain, 2 for each very_serious one
Downgrades(ratings) ==
    Cardinality({i \in DomainSlots : RatingOf(ratings, downgrade_domains[i]) = "serious"})
    + 2 * Cardinality({i \in DomainSlots :
                           RatingOf(ratings, downgrade_domains[i]) = "very_serious"})

\* U: the number of upgrade factors with applicable = true
Upgrades(upgrades) ==
    Cardinality({i \in FactorSlots :
                    /\ IsDict(Get(upgrades, upgrade_names[i]))
                    /\ Get(Get(upgrades, upgrade_names[i]), "applicable") = Bool(TRUE)})

CertaintyLabel(n) == <<"very_low", "low", "moderate", "high">>[n]

\* the design names a randomized study: its text holds r-c-t or r-a-n-d-o-m in any case
NamesRandomized(design) ==
    \E i \in 1..Len(design) :
        \/ /\ i + 2 <= Len(design)
           /\ design[i] \in {"r", "R"} /\ design[i + 1] \in {"c", "C"}
           /\ design[i + 2] \in {"t", "T"}
        \/ /\ i + 5 <= Len(design)
           /\ design[i] \in {"r", "R"} /\ design[i + 1] \in {"a", "A"}
           /\ design[i + 2] \in {"n", "N"} /\ design[i + 3] \in {"d", "D"}
           /\ design[i + 4] \in {"o", "O"} /\ design[i + 5] \in {"m", "M"}

\* C6: the certainty is label(min(4, max(1, start - D + U))), clamped once at the end;
\* a randomized trial without downgrades or upgrades is high, a cohort study with two
\* serious domains is very_low
C6_CertaintyFormula ==
    (pc = "graded" /\ ~raised) =>
        /\ certainty =
               CertaintyLabel(Min(4, Max(1,
                   (IF NamesRandomized(study_design) THEN 4 ELSE 2)
                   - Downgrades(domain_ratings) + Upgrades(upgrade_factors))))
        /\ ( /\ study_design = RandomizedTrial
             /\ Downgrades(domain_ratings) = 0
             /\ Upgrades(upgrade_factors) = 0 ) => certainty = "high"
        /\ ( /\ study_design = CohortStudy
             /\ domain_ratings = Dict(<<"risk_of_bias", "imprecision">>,
                                      <<Rating("serious"), Rating("serious")>>)
             /\ Upgrades(upgrade_factors) = 0 ) => certainty = "very_low"

\* the cohort study of the example has been rated, and so has a case where the running
\* total leaves [1,4] before the upgrades bring it back
C6_Witness ==
    /\ pc = "graded" /\ ~raised
    /\ study_design = CohortStudy
    /\ \/ /\ domain_ratings = Dict(<<"risk_of_bias", "imprecision">>,
                                   <<Rating("serious"), Rating("serious")>>)
          /\ Upgrades(upgrade_factors) = 0
          /\ certainty = "very_low"
       \/ /\ Downgrades(domain_ratings) = 2
          /\ Upgrades(upgrade_factors) = 1
          /\ certainty = "very_low"

\* C7: compute_overall_certainty is total: with entries missing, empty, null or of an
\* unrecognised rating it returns one of the four labels without raising
C7_CertaintyTotal ==
    (pc = "graded") => (~raised /\ certainty \in {"very_low", "low", "moderate", "high"})

(***************************************************************************)
(* Specification of run_extraction: first pass, optional verification pass,*)
(* grounding and persistence.                                              *)
(***************************************************************************)
\* oracle texts: bare JSON, fenced JSON, an unclosed fence, a JSON array, no JSON
RunTexts ==
    {<<"obj">>, <<"fence", "json", "ws", "obj", "ws", "fence">>, <<"fence", "obj", "fence">>,
     <<"fence", "json", "obj">>, <<"arr">>, <<"junk">>}

\* Fields of the first-pass response
FirstPassFields ==
    MkFields({Null, Str("x")}, {Str("high"), Str("bogus")}, {Absent}, {Absent, List(<<Str("q")>>)})

\* JSON objects written under a template prompt: each section of the template is a key
TemplateRecords ==
    {Dict(<<"baseline">>, <<Dict(<<"age">>, <<f>>)>>) : f \in FirstPassFields}

\* JSON objects with a Field in a group of a section, and in an element of a list
NestedRecords ==
    {Dict(<<"population">>, <<Dict(<<"baseline">>, <<Dict(<<"age">>, <<f>>)>>)>>) :
         f \in FirstPassFields}
    \cup {Dict(<<"outcomes">>, <<List(<<Dict(<<"name">>, <<f>>)>>)>>) : f \in FirstPassFields}

\* JSON objects of the first response
FirstPassRecords ==
    TwoFields(FirstPassFields, FirstPassFields)
    \cup {Dict(<<"study_design">>, <<n>>) : n \in Chain(MaxDepth - 1, FewFields)}
    \cup TemplateRecords
    \cup NestedRecords

\* Fields and JSON objects of the verification response
VerifyFields == MkFields({Null, Str("y")}, {Absent, Str("high"), Unhashable}, {Absent}, {Absent})

VerifyRecords ==
    TwoFields(VerifyFields, VerifyFields) \cup {Dict(<<"study_design">>, <<Null>>), EmptyDict}

\* the value json.loads gives for a parsed text whose JSON object is payload
loaded(p, payload) ==
    IF p.status = "degraded"
    THEN Dict(<<"error", "raw_text">>, <<Str("Failed to parse response"), Str("raw")>>)
    ELSE IF p.value = "obj" THEN payload
    ELSE List(<<>>)

InitRun ==
    /\ pc = "first_pass"
    /\ text \in RunTexts
    /\ response \in FirstPassRecords
    /\ parsed = NotParsed
    /\ data = Null /\ before = Null /\ verification = Null
    /\ raised = FALSE
    /\ stats = NewStats
    /\ verify_text = <<>>
    /\ first_stats = NewStats
    /\ persisted = NotPersisted
    /\ verify_failed = FALSE
    /\ oracle_calls = 0
    /\ IdleGrade /\ IdleLocate /\ IdleValidate /\ IdleAssess /\ IdleVersion

\* lines 82-110: the first oracle response is parsed, normalized and counted, and the
\* need for a verification pass is decided; an exception leaves run_extraction
FirstPass ==
    /\ pc = "first_pass"
    /\ LET p == _parse_extraction_response(text)
           n == _normalize_confidence_metadata(loaded(p, response))
           c == _compute_completeness(n.v)
       IN /\ parsed' = p
          /\ IF p.status = "raised"
             THEN /\ pc' = "failed" /\ raised' = TRUE
                  /\ UNCHANGED <<data, before, stats, first_stats>>
             ELSE IF n.exc \/ c.exc
             THEN /\ pc' = "failed" /\ raised' = TRUE
                  /\ data' = n.v
                  /\ UNCHANGED <<before, stats, first_stats>>
             ELSE /\ data' = n.v
                  /\ before' = n.v
                  /\ stats' = c.v
                  /\ first_stats' = c.v
                  /\ raised' = FALSE
                  /\ pc' = IF needs_verify(c.v)
                              /\ Len(_collect_fields_needing_verification(n.v, <<>>, 1)) > 0
                           THEN "verify" ELSE "ground"
    /\ UNCHANGED <<assessVars, versionVars, locateVars, validation_warnings,
                   verification, text, gradeVars, response, verify_text, persisted,
                   verify_failed>>
    /\ oracle_calls' = oracle_calls + 1

\* lines 111-128: the try block of the verification pass; the oracle call raises, or it
\* returns a text that is parsed, merged into extraction_data in place, re-normalized and
\* re-counted; any exception is caught and logged
VerifyPass ==
    /\ pc = "verify"
    /\ \/ /\ verify_failed' = TRUE
          /\ UNCHANGED <<data, stats, verification, verify_text>>
       \/ \E vt \in RunTexts, vp \in VerifyRecords :
            LET p == _parse_extraction_response(vt)
                m == _merge_verification_pass(data, loaded(p, vp))
                n == _normalize_confidence_metadata(m.v)
                c == _compute_completeness(n.v)
            IN /\ verify_text' = vt
               /\ verification' = vp
               /\ IF p.status = "raised"
                  THEN verify_failed' = TRUE /\ UNCHANGED <<data, stats>>
                  ELSE IF m.exc
                  THEN verify_failed' = TRUE /\ data' = m.v /\ UNCHANGED stats
                  ELSE IF n.exc \/ c.exc
                  THEN verify_failed' = TRUE /\ data' = n.v /\ UNCHANGED stats
                  ELSE verify_failed' = FALSE /\ data' = n.v /\ stats' = c.v
    /\ pc' = "ground"
    /\ oracle_calls' = oracle_calls + 1
    /\ UNCHANGED <<assessVars, versionVars, locateVars, validation_warnings,
                   before, raised, parseVars, gradeVars, response, first_stats, persisted>>

\* lines 135-172: the grounded record g is validated and the Extraction row is stored
\* (a list of no warnings is stored as None, written <<>> here as well)
store_validated(g, w) ==
    /\ data' = g.v
    /\ IF g.exc \/ w.exc
       THEN /\ pc' = "failed" /\ raised' = TRUE
            /\ UNCHANGED <<persisted, validation_warnings>>
       ELSE /\ pc' = "done"
            /\ validation_warnings' = w.v
            /\ persisted' = [stored |-> TRUE, record |-> stored_sections(g.v),
                             completeness_summary |-> stats,
                             validation_warnings |-> w.v,
                             field_review_status |-> _generate_initial_review_status(g.v)]
            /\ UNCHANGED raised

store_row(g) == store_validated(g, IF g.exc THEN Crashed ELSE validate_extraction(g.v))

\* lines 130-179: the quotes are grounded, the record is validated and the Extraction
\* row is stored
Persist ==
    /\ pc = "ground"
    /\ store_row(_map_source_locations(data))
    /\ UNCHANGED <<assessVars, versionVars, locateVars, before, verification, stats,
                   parseVars, gradeVars, response,
                   verify_text, first_stats, verify_failed, oracle_calls>>

NextRun == FirstPass \/ VerifyPass \/ Persist

SpecRun == InitRun /\ [][NextRun]_vars

\* C5: when the verification pass fails, run_extraction does not fail and what it grounds
\* and persists is the normalized first-pass record with the first-pass summary
C5_FailedVerificationKeepsFirstPass ==
    verify_failed =>
        /\ pc # "failed"
        /\ stats = first_stats
        /\ pc = "ground" => data = before
        /\ pc = "done" =>
               /\ persisted.record = stored_sections(_map_source_locations(before).v)
               /\ persisted.completeness_summary = first_stats

(***************************************************************************)
(* Specification of the Locator: find_quote_locations called twice on the  *)
(* same document with the same quote.                                      *)
(***************************************************************************)
\* pages of a document
MaxPages == 2

LocateQuotes ==
    {<<"n", "o", " ", "d", "a", "t", "a">>,
     <<"a", "t">>,
     <<"N", "o", " ", "D", "a", "d", "a">>}

LocatePages ==
    {MkPage(<<"n", "o", " ", "d", "a", "t", "a", " ", "n", "o", " ", "d", "a", "t", "a">>, 320, 96, 24),
     MkPage(<<"N", "o", " ", "D", "a", "t", "a">>, 300, 100, 0),
     MkPage(<<"n", "o", " ", "d", "a", "d", "a">>, 300, 100, 30),
     MkPage(<<"i", "n", " ", "r", "a", "t", "s">>, 300, 100, 30),
     MkPage(<<"n", "o">>, 300, 100, 30),
     MkPage(<<"a", "t", " ", "c", "a", "t", " ", "a", "t">>, 320, 96, 36),
     MkPage(<<" ", " ", " ", " ", " ", " ", " ", " ", "n", "o", " ", "d", "a", "d", "a">>, 300, 100, 30),
     MkPage(<<>>, 300, 100, 0)}

RECURSIVE Documents(_)
\* the documents of 1 to n pages
Documents(n) ==
    IF n = 0 THEN {}
    ELSE {<<p>> : p \in LocatePages}
         \cup {Append(d, p) : d \in Documents(n - 1), p \in LocatePages}

InitLocate ==
    /\ pc = "locate"
    /\ doc \in Documents(MaxPages)
    /\ quote \in LocateQuotes
    /\ locations = <<>>
    /\ first_locations = <<>>
    /\ fuzzy_called = FALSE
    /\ calls = 0
    /\ data = Null
    /\ before = Null
    /\ verification = Null
    /\ raised = FALSE
    /\ stats = NewStats
    /\ IdleParse /\ IdleGrade /\ IdleRun /\ IdleValidate /\ IdleAssess /\ IdleVersion

\* a call whose list of locations outlives the call and is extended by the next one
Locate_accumulating ==
    /\ pc = "locate"
    /\ calls < 2
    /\ LET r == find_quote_locations_run(doc, quote) IN
         /\ locations' = locations \o r.locations
         /\ fuzzy_called' = r.fuzzy
         /\ first_locations' = IF calls = 0 THEN r.locations ELSE first_locations
    /\ calls' = calls + 1
    /\ UNCHANGED <<assessVars, versionVars, pc, data, before, verification, raised, stats,
                   validation_warnings,
                   doc, quote, parseVars, gradeVars, runVars>>

\* locations = find_quote_locations(pdf_path, quote): the document is opened, searched
\* and closed; the call keeps nothing
Locate ==
    /\ pc = "locate"
    /\ calls < 2
    /\ LET r == find_quote_locations_run(doc, quote) IN
         /\ locations' = r.locations
         /\ fuzzy_called' = r.fuzzy
         /\ first_locations' = IF calls = 0 THEN r.locations ELSE first_locations
    /\ calls' = calls + 1
    /\ UNCHANGED <<assessVars, versionVars, pc, data, before, verification, raised, stats,
                   validation_warnings,
                   doc, quote, parseVars, gradeVars, runVars>>

NextLocate == Locate

SpecLocate == InitLocate /\ [][NextLocate]_vars

\* the pages (1-based) on which the quote has an exact match
ExactPages == {p \in 1..Len(doc) : Len(search_for(doc[p], quote)) > 0}

MaxOutcomes == 2

\* the Field that carries the value v
Fld(v) == MkField(v, Str("high"), Absent, Absent)

MkOutcome(n_int, n_ctrl, e_int, e_ctrl, lo, hi, p, measure, effect) ==
    Dict(OptKey("sample_size_intervention", n_int) \o OptKey("sample_size_control", n_ctrl)
             \o OptKey("events_intervention", e_int) \o OptKey("events_control", e_ctrl)
             \o OptKey("ci_lower", lo) \o OptKey("ci_upper", hi) \o OptKey("p_value", p)
             \o OptKey("effect_measure", measure) \o OptKey("effect_size", effect),
         OptVal(n_int) \o OptVal(n_ctrl) \o OptVal(e_int) \o OptVal(e_ctrl)
             \o OptVal(lo) \o OptVal(hi) \o OptVal(p) \o OptVal(measure) \o OptVal(effect))

\* outcomes with arm sizes and event counts
SizeOutcomes ==
    {MkOutcome(n_int, n_ctrl, e_int, e_ctrl, Absent, Absent, Absent, eff[1], eff[2]) :
         n_int \in {Absent, Fld(Num(40, 0)), Fld(Num(-5, 0)), Fld(Str("unclear"))},
         n_ctrl \in {Absent, Fld(Num(55, 0)), Fld(Num(40, 0)), Num(65, 0)},
         e_int \in {Absent, Fld(Num(40, 0)), Fld(Num(50, 0)), Fld(Num(-1, 0))},
         e_ctrl \in {Absent, Fld(Text(<<"6", "0">>))},
         eff \in {<<Absent, Absent>>, <<Fld(Str("OR")), Fld(Num(2, 0))>>}}

PValues ==
    {Absent, Fld(Null), Fld(Num(5, 2)), Fld(Num(1, 2)), Num(5, 1), Fld(Bool(TRUE)),
     Fld(Text(<<"p", "<", "0", ".", "0", "5">>)), Fld(Text(<<"p", ">", "0", ".", "0", "5">>)), Text(<<"0", ".", "0", "5">>),
     Fld(Text(<<"P", " ", "=", " ", "0", ".", "0", "1">>)), Fld(Str("ns")), Fld(Text(<<"1", "<", "2">>))}

\* outcomes with a confidence interval and a p-value
CiOutcomes ==
    {MkOutcome(Absent, Absent, Absent, Absent, ci[1], ci[2], p, measure, Absent) :
         ci \in {<<Absent, Absent>>, <<Fld(Num(5, 1)), Fld(Num(15, 1))>>,
                 <<Fld(Num(12, 1)), Fld(Num(15, 1))>>, <<Fld(Num(-5, 1)), Num(5, 1)>>,
                 <<Fld(Num(2, 1)), Fld(Num(8, 1))>>, <<Fld(Num(15, 1)), Fld(Num(5, 1))>>,
                 <<Fld(Num(5, 1)), Absent>>},
         p \in PValues,
         measure \in {Absent, Fld(Str("OR")), Fld(Str("MD")), Str("HR")}}

\* outcomes with an effect size
EffectOutcomes ==
    {MkOutcome(n_int, n_ctrl, Absent, Absent, Absent, Absent, Absent, measure, effect) :
         n_int \in {Absent, Fld(Num(-5, 0)), Fld(Num(40, 0))},
         n_ctrl \in {Absent, Num(-5, 0)},
         measure \in {Absent, Fld(Null), Fld(Str("OR")), Fld(Str("RR")), Str("HR"),
                      Fld(Str("MD")), Fld(Str("SMD"))},
         effect \in {Absent, Fld(Null), Fld(Num(0, 0)), Fld(Num(-1, 0)), Fld(Num(5, 1)),
                     Fld(Num(100, 0)), Num(101, 0), Fld(Str("large"))}}

\* an outcome that every check but the first flags
FlaggedOutcome ==
    MkOutcome(Fld(Num(-5, 0)), Absent, Fld(Num(-1, 0)), Absent, Fld(Num(5, 1)),
              Fld(Num(15, 1)), Fld(Num(1, 2)), Fld(Str("OR")), Fld(Num(0, 0)))

Fillers == {EmptyDict, FlaggedOutcome}

\* a list of len outcomes: r at the position pos, the fillers fl elsewhere
OutcomeList(r, len, pos, fl) == List([j \in 1..len |-> IF j = pos THEN r ELSE fl[j]])

\* outcomes that are no list, or that hold an element that is no dict
IrregularOutcomes ==
    {Absent, Null, Dict(<<"primary">>, <<FlaggedOutcome>>), List(<<>>), List(<<Null>>),
     List(<<FlaggedOutcome, Str("x")>>)}

SamplePopulations ==
    {Absent, Null, EmptyDict, Str("adults")}
    \cup {Dict(<<"sample_size">>, <<total>>) :
              total \in {Fld(Num(100, 0)), Num(100, 0), Fld(Num(0, 0)), Fld(Num(-100, 0)),
                         Fld(Str("unknown")), Fld(Null)}}

FewPopulations == {Absent, Null, Dict(<<"sample_size">>, <<Fld(Num(100, 0))>>)}

MkRecord(pop, outcomes) ==
    Dict(OptKey("population", pop) \o OptKey("outcomes", outcomes),
         OptVal(pop) \o OptVal(outcomes))

\* data is a record with the population pop and up to MaxOutcomes outcomes, one of
\* them from rich
RecordOf(pops, rich) ==
    \E pop \in pops, r \in rich, len \in 1..MaxOutcomes :
        \E pos \in 1..len, fl \in [1..len -> Fillers] :
            data = MkRecord(pop, OutcomeList(r, len, pos, fl))

InitValidate ==
    /\ pc = "validate"
    /\ \/ RecordOf(SamplePopulations, SizeOutcomes)
       \/ RecordOf(FewPopulations, CiOutcomes \cup EffectOutcomes)
       \/ \E pop \in SamplePopulations, outcomes \in IrregularOutcomes :
              data = MkRecord(pop, outcomes)
    /\ before = data
    /\ verification = Null
    /\ raised = FALSE
    /\ stats = NewStats
    /\ validation_warnings = <<>>
    /\ IdleParse /\ IdleGrade /\ IdleRun /\ IdleLocate /\ IdleAssess /\ IdleVersion

\* validation_warnings = validate_extraction(data)
Validate ==
    /\ pc = "validate"
    /\ LET r == validate_extraction(data) IN
         /\ validation_warnings' = r.v
         /\ raised' = r.exc
    /\ pc' = "validated"
    /\ UNCHANGED <<assessVars, versionVars, data, before, verification, stats, parseVars,
                   gradeVars, runVars,
                   locateVars>>

NextValidate == Validate

SpecValidate == InitValidate /\ [][NextValidate]_vars

\* validate_extraction has returned
Validated == pc = "validated" /\ ~raised

\* the outcomes of the record, when they are a list
Outcomes ==
    LET o == GetDefault(data, "outcomes", List(<<>>)) IN
    IF IsList(o) THEN o.vals ELSE <<>>

\* the number held at a key of the i-th outcome, if any
NumberAt(i, key) ==
    IF IsDict(Outcomes[i]) THEN number_at(Outcomes[i], key) ELSE NoFloat

\* the value at a key of the i-th outcome (None when absent)
ValueAt(i, key) ==
    IF IsDict(Outcomes[i]) THEN _get_field_value(Get(Outcomes[i], key)) ELSE Null

\* how many warnings name the i-th outcome (index i - 1), a field and a check
Emitted(i, field, severity, check_name) ==
    Cardinality({w \in 1..Len(validation_warnings) :
                     validation_warnings[w] = Warning(i - 1, field, severity, check_name)})

Once(cond) == IF cond THEN 1 ELSE 0

Negative(x) == x.some /\ float_lt(x, Float(0, 0))

ArmSizes == {"sample_size_intervention", "sample_size_control"}

\* C12: when validate_extraction returns, every arm sample size that is a negative
\* number has its negative_sample_size error, whatever else the outcome holds
C12_NegativeSampleSizeAlways ==
    Validated =>
        \A i \in 1..Len(Outcomes) : \A field \in ArmSizes :
            Negative(NumberAt(i, field)) =>
                Emitted(i, field, "error", "negative_sample_size") = 1

\* C13: for an outcome with numeric CI bounds, a parseable p-value and a ratio or
\* difference measure, there is one ci_pvalue_disagreement warning at its p_value when
\* (ci_lower <= null <= ci_upper) differs from (p > 0.05), and none when they agree
C13_CiPvalueAgreement ==
    Validated =>
        \A i \in 1..Len(Outcomes) :
            LET lo == NumberAt(i, "ci_lower")
                hi == NumberAt(i, "ci_upper")
                p == _parse_p_value(ValueAt(i, "p_value"))
                m == ValueAt(i, "effect_measure")
                null == IF m.s \in {"OR", "RR", "HR"} THEN Float(1, 0) ELSE Float(0, 0)
                crosses == float_le(lo, null) /\ float_le(null, hi)
                nonsig == float_lt(Float(5, 2), p)
            IN (lo.some /\ hi.some /\ p.some /\ m.s \in {"OR", "RR", "HR", "MD", "SMD"}) =>
                   Emitted(i, "p_value", "warning", "ci_pvalue_disagreement")
                       = Once(crosses # nonsig)

\* C13 witness: a ratio measure whose interval crosses 1 but not 0, with p <= 0.05
C13_Witness ==
    /\ Validated
    /\ \E i \in 1..Len(Outcomes) :
           /\ ValueAt(i, "effect_measure") = Str("OR")
           /\ NumberAt(i, "ci_lower") = Float(5, 1)
           /\ NumberAt(i, "ci_upper") = Float(15, 1)
           /\ ValueAt(i, "p_value") = Text(<<"p", "<", "0", ".", "0", "5">>)
           /\ Emitted(i, "p_value", "warning", "ci_pvalue_disagreement") = 1

\* the total sample size of the record, if any
TotalN ==
    LET pop == GetDefault(data, "population", EmptyDict) IN
    IF IsDict(pop) THEN _try_float(_get_field_value(Get(pop, "sample_size"))) ELSE NoFloat

\* C14: with a numeric total > 0, outcome i has the sample_size_consistency warning
\* exactly when both arm sizes are numbers and |n_int + n_ctrl - total| / total > 0.05;
\* without a total, with a total <= 0 or with an arm that is absent or not numeric there
\* is no such warning and validate_extraction does not raise
C14_SampleSizeConsistency ==
    pc = "validated" =>
        LET positive == TotalN.some /\ float_lt(Float(0, 0), TotalN)
            both(i) == NumberAt(i, "sample_size_intervention").some
                         /\ NumberAt(i, "sample_size_control").some
            sum(i) == float_add(NumberAt(i, "sample_size_intervention"),
                                NumberAt(i, "sample_size_control"))
        IN /\ \A i \in 1..Len(Outcomes) :
                  Emitted(i, "sample_size", "warning", "sample_size_consistency")
                      = Once(~raised /\ positive /\ both(i)
                                 /\ float_lt(TotalN, float_times(20,
                                        float_abs(float_sub(sum(i), TotalN)))))
           /\ (~positive \/ \E i \in 1..Len(Outcomes) : ~both(i)) => ~raised

Arms ==
    {<<"events_intervention", "sample_size_intervention">>,
     <<"events_control", "sample_size_control">>}

\* C15: for every outcome and arm, events_exceed_sample_size is emitted exactly when
\* events and sample size are both numbers and events > sample size, and negative_events
\* exactly when the event count is a number below 0
C15_EventsChecks ==
    Validated =>
        \A i \in 1..Len(Outcomes) : \A arm \in Arms :
            LET events == NumberAt(i, arm[1])
                n == NumberAt(i, arm[2])
            IN /\ Emitted(i, arm[1], "error", "events_exceed_sample_size")
                      = Once(events.some /\ n.some /\ float_lt(n, events))
               /\ Emitted(i, arm[1], "error", "negative_events") = Once(Negative(events))

\* C15 witness: both errors on one arm, and a negative count on an arm without a size
C15_Witness ==
    /\ Validated
    /\ \E i \in 1..Len(Outcomes) :
           /\ Emitted(i, "events_intervention", "error", "events_exceed_sample_size") = 1
           /\ Emitted(i, "events_intervention", "error", "negative_events") = 1
    /\ \E i \in 1..Len(Outcomes) :
           /\ ~NumberAt(i, "sample_size_intervention").some
           /\ Emitted(i, "events_intervention", "error", "negative_events") = 1

\* C16: with a numeric effect size, a ratio measure has the negative_ratio_measure error
\* exactly when effect_size <= 0 and the extreme_effect_size warning exactly when
\* effect_size > 100; any other measure has neither
C16_RatioPlausibility ==
    Validated =>
        \A i \in 1..Len(Outcomes) :
            LET effect == NumberAt(i, "effect_size")
                is_ratio == ValueAt(i, "effect_measure").s \in {"OR", "RR", "HR"}
            IN effect.some =>
                   /\ Emitted(i, "effect_size", "error", "negative_ratio_measure")
                          = Once(is_ratio /\ float_le(effect, Float(0, 0)))
                   /\ Emitted(i, "effect_size", "warning", "extreme_effect_size")
                          = Once(is_ratio /\ float_lt(Float(100, 0), effect))

\* C16 witness: a relative risk of exactly 0 has the error
C16_Witness ==
    /\ Validated
    /\ \E i \in 1..Len(Outcomes) :
           /\ NumberAt(i, "effect_size") = Float(0, 0)
           /\ ValueAt(i, "effect_measure") = Str("RR")
           /\ Emitted(i, "effect_size", "error", "negative_ratio_measure") = 1

RECURSIVE lstrip_chars(_, _)
\* the text without its leading characters of the set
lstrip_chars(cs, set) ==
    IF Len(cs) > 0 /\ cs[1] \in set THEN lstrip_chars(Tail(cs), set) ELSE cs

\* the p-value as the claim reads it: the number left after the leading "p", "=", "<",
\* ">" and spaces
stated_p_value(raw) ==
    IF raw = Null THEN NoFloat
    ELSE float_of_text(lstrip_chars(str_of(raw), {"p", "P", "=", "<", ">", " "}))

\* C17: _parse_p_value returns the number that remains after the leading "p", "=", "<",
\* ">" and whitespace, None when there is none; an outcome without such a number has no
\* CI/p-value warning
C17_ParsePValue ==
    Validated =>
        \A i \in 1..Len(Outcomes) :
            LET raw == ValueAt(i, "p_value")
                stated == stated_p_value(raw)
                got == _parse_p_value(raw)
            IN /\ got.some = stated.some
               /\ stated.some => float_le(got, stated) /\ float_le(stated, got)
               /\ ~stated.some =>
                      Emitted(i, "p_value", "warning", "ci_pvalue_disagreement") = 0


(***************************************************************************)
(* The stored Extraction row: run_extraction creates it from a record with *)
(* a study design, a population and a list of outcomes, and PUT            *)
(* /extractions/{id} replaces sections of it.                              *)
(***************************************************************************)
StoreTexts == {<<"obj">>, <<"junk">>}

\* JSON objects of the first response
StoreRecords ==
    {Dict(OptKey("study_design", design) \o OptKey("population", pop)
              \o OptKey("outcomes", outcomes),
          OptVal(design) \o OptVal(pop) \o OptVal(outcomes)) :
         design \in {Absent, Dict(<<"type">>, <<Fld(Str("x"))>>),
                     Dict(<<"type">>, <<MkField(Null, Str("low"), Absent, Absent)>>),
                     Dict(<<"type">>, <<MkField(Null, Str("high"), Absent, Absent)>>)},
         pop \in {Absent, Dict(<<"sample_size">>, <<Fld(Num(100, 0))>>)},
         outcomes \in {Absent,
                       List(<<MkOutcome(Fld(Num(40, 0)), Fld(Num(40, 0)), Absent, Absent,
                                        Absent, Absent, Absent, Absent, Absent)>>),
                       List(<<MkOutcome(Fld(Num(-5, 0)), Absent, Absent, Absent,
                                        Absent, Absent, Absent, Fld(Str("OR")),
                                        Fld(Num(2, 0)))>>)}}

\* the sections a PUT body may set, and the values it gives them (dict | None)
UpdateKeys == <<"study_design", "population", "outcomes">>
UpdateValues == {Null, Dict(<<"sample_size">>, <<Fld(Num(80, 0))>>)}

\* ExtractionUpdate.model_dump(exclude_unset=True): the fields the body sets, in the
\* order of their declaration
UpdatePayloads ==
    {Dict(<<UpdateKeys[i]>>, <<v>>) : i \in 1..Len(UpdateKeys), v \in UpdateValues}
    \cup {Dict(<<UpdateKeys[ij[1]], UpdateKeys[ij[2]]>>, <<v, w>>) :
              ij \in {x \in (1..Len(UpdateKeys)) \X (1..Len(UpdateKeys)) : x[1] < x[2]},
              v \in UpdateValues, w \in UpdateValues}

RECURSIVE set_fields(_, _, _)
\* lines 96-97: setattr(extraction, field, value) for the fields of the payload
set_fields(record, payload, i) ==
    IF i > Len(payload.keys) THEN record
    ELSE set_fields(SetKey(record, payload.keys[i], payload.vals[i]), payload, i + 1)

\* lines 96-100: the row after the PUT; no other column is assigned
update_extraction(row, payload) == [row EXCEPT !.record = set_fields(@, payload, 1)]

InitStore ==
    /\ pc = "first_pass"
    /\ text \in StoreTexts
    /\ response \in StoreRecords
    /\ parsed = NotParsed
    /\ data = Null /\ before = Null /\ verification = Null
    /\ raised = FALSE
    /\ stats = NewStats
    /\ verify_text = <<>>
    /\ first_stats = NewStats
    /\ persisted = NotPersisted
    /\ verify_failed = FALSE
    /\ oracle_calls = 0
    /\ IdleGrade /\ IdleLocate /\ IdleValidate /\ IdleAssess /\ IdleVersion

\* PUT /extractions/{id} on the stored row (a missing row answers 404)
UpdateExtraction ==
    /\ persisted.stored
    /\ \E payload \in UpdatePayloads : persisted' = update_extraction(persisted, payload)
    /\ UNCHANGED <<assessVars, versionVars, locateVars, validation_warnings,
                   pc, data, before, verification, raised, stats, parseVars, gradeVars,
                   response, verify_text, first_stats, verify_failed, oracle_calls>>

NextStore == FirstPass \/ VerifyPass \/ Persist \/ UpdateExtraction

SpecStore == InitStore /\ [][NextStore]_vars

\* the sections of the stored row that hold a value
present_sections(record) ==
    LET idx == SelectSeq([i \in 1..Len(record.keys) |-> i],
                         LAMBDA i : record.vals[i] # Null)
    IN Dict([j \in 1..Len(idx) |-> record.keys[idx[j]]],
            [j \in 1..Len(idx) |-> record.vals[idx[j]]])

\* C18: the completeness_summary and the validation_warnings stored with an extraction
\* are those of its currently stored sections, after any sequence of run_extraction
\* and update_extraction
C18_DerivedArtifactsMatch ==
    persisted.stored =>
        LET current == present_sections(persisted.record) IN
            /\ _compute_completeness(current) = Ok(persisted.completeness_summary)
            /\ validate_extraction(current).exc = FALSE
            /\ validate_extraction(current).v = persisted.validation_warnings


(***************************************************************************)
(* The Fields of a record, counted where they stand.                       *)
(***************************************************************************)
RECURSIVE field_nodes(_)
RECURSIVE field_nodes_from(_, _)

\* the dict nodes with a 'value' key among the children of n from the i-th on, the
\* keys source_locations and quotes left aside
field_nodes_from(n, i) ==
    IF i > Len(n.vals) THEN 0
    ELSE (IF IsDict(n) /\ n.keys[i] \in {"source_locations", "quotes"} THEN 0
          ELSE field_nodes(n.vals[i]))
         + field_nodes_from(n, i + 1)

\* the dict nodes with a 'value' key in n, n included
field_nodes(n) == (IF IsField(n) THEN 1 ELSE 0) + field_nodes_from(n, 1)

RECURSIVE fields_of_record(_, _)
\* the Fields of the record d under its top-level keys from the i-th on, the keys
\* error, raw_text and custom_fields left aside
fields_of_record(d, i) ==
    IF i > Len(d.vals) THEN 0
    ELSE (IF d.keys[i] \in {"error", "raw_text", "custom_fields"} THEN 0
          ELSE field_nodes(d.vals[i]))
         + fields_of_record(d, i + 1)

\* C20: _compute_completeness counts every Field of the record exactly once, the
\* Fields that sit directly at the top level of the record included
C20_CountsEveryField ==
    (pc = "counted" /\ ~raised) => stats.total_fields = fields_of_record(data, 1)


\* the first pass ended and the need for a verification pass was decided
FirstPassDone == pc \in {"verify", "ground", "done"} \/ (pc = "failed" /\ before # Null)

\* C21: the verification oracle call is issued exactly when, on the first-pass summary,
\* (low_confidence + missing) / max(total_fields, 1) exceeds 0.2 (a ratio of exactly 0.2
\* does not trigger it) and there is a path to verify; a run makes at most two oracle
\* calls, the verification call at most once
C21_VerificationTrigger ==
    /\ oracle_calls <= 2
    /\ pc = "first_pass" => oracle_calls = 0
    /\ pc = "verify" => oracle_calls = 1
    /\ FirstPassDone =>
           ((pc = "verify" \/ oracle_calls = 2)
                <=> /\ 5 * (first_stats.low_confidence + first_stats.missing)
                           > (IF first_stats.total_fields > 1
                              THEN first_stats.total_fields ELSE 1)
                    /\ Len(_collect_fields_needing_verification(before, <<>>, 1)) > 0)

C21_Witness == pc = "done" /\ oracle_calls = 2


(***************************************************************************)
(* The paths of the Fields to verify, read off the record.                 *)
(***************************************************************************)
RECURSIVE paths_to_verify(_, _)
RECURSIVE paths_to_verify_from(_, _, _)

\* the paths of the Fields of low confidence or unclear absence among the children of
\* n from the i-th on, in traversal order
paths_to_verify_from(n, path, i) ==
    IF i > Len(n.vals) THEN <<>>
    ELSE paths_to_verify(n.vals[i],
                         Append(path, IF IsDict(n) THEN n.keys[i] ELSE IndexStep(i)))
         \o paths_to_verify_from(n, path, i + 1)

\* the same at and under the node n, which stands at path
paths_to_verify(n, path) ==
    IF IsField(n)
    THEN IF Get(n, "confidence") = Str("low") \/ Get(n, "missing_reason") = Str("unclear")
         THEN <<path>> ELSE <<>>
    ELSE IF IsDict(n) \/ IsList(n) THEN paths_to_verify_from(n, path, 1)
    ELSE <<>>

\* C22: _collect_fields_needing_verification returns exactly the paths of the Fields
\* whose confidence is 'low' or whose missing_reason is 'unclear', each once and in
\* traversal order, wherever the Field sits
C22_CollectsExactlyThePaths ==
    pc \in {"normalized", "counted"} =>
        _collect_fields_needing_verification(data, <<>>, 1)
            = paths_to_verify_from(data, <<>>, 1)


(***************************************************************************)
(* The frame of a merge.                                                   *)
(***************************************************************************)
\* the node of the patch p that is paired with the i-th child of the original node o
paired(o, p, i) ==
    IF IsDict(o) /\ IsDict(p) /\ HasKey(p, o.keys[i]) THEN Get(p, o.keys[i])
    ELSE IF IsList(o) /\ IsList(p) /\ i <= Len(p.vals) THEN p.vals[i]
    ELSE Absent

RECURSIVE only_fields_replaced(_, _, _)
\* the merged node m differs from the original node o only by whole Fields replaced by
\* the Fields that the patch p holds at the same paths: m is o, or o is a Field and m
\* is the Field of the patch, or m has the keys and the length of o and the same holds
\* of every child
only_fields_replaced(o, m, p) ==
    \/ m = o
    \/ p # Absent /\ IsField(o) /\ IsField(p) /\ m = p
    \/ /\ p # Absent
       /\ IsDict(o) \/ IsList(o)
       /\ m.k = o.k
       /\ m.keys = o.keys
       /\ Len(m.vals) = Len(o.vals)
       /\ \A i \in 1..Len(o.vals) :
              only_fields_replaced(o.vals[i], m.vals[i], paired(o, p, i))

\* C23: a merge changes the original record only by replacing whole Fields at paths
\* present in both records: no key is added or removed, no list changes its length,
\* a Field whose path the patch lacks stays as it was, and list elements are paired
\* by index
C23_MergeFrame ==
    pc = "merged" => only_fields_replaced(before, data, verification)

\* a merge that replaced a Field of an outcome, under a patch that brings a key the
\* record lacks, lacks a key of the record, and holds more outcomes than the record
C23_Witness ==
    /\ pc = "merged" /\ ~raised
    /\ HasKey(verification, "funding") /\ ~HasKey(verification, "study_design")
    /\ HasKey(verification, "outcomes")
    /\ Len(Get(verification, "outcomes").vals) > Len(Get(before, "outcomes").vals)
    /\ Get(data, "outcomes") # Get(before, "outcomes")


\* C24: at the end of every run_extraction, whether the verification pass was skipped,
\* succeeded or failed, the persisted completeness_summary is _compute_completeness of
\* the persisted record
C24_PersistedSummaryMatches ==
    (pc = "done" /\ persisted.stored) =>
        _compute_completeness(persisted.record) = Ok(persisted.completeness_summary)

(***************************************************************************)
(* The fuzzy pass, page by page                                            *)
(***************************************************************************)
\* the offsets 0, s, 2s, ... of the windows of the quote's length on page p (1-based)
SampledOffsets(p) ==
    LET s == Max(1, Len(quote) \div 10) IN
    {i \in 0..(Len(doc[p].text) - Len(quote)) : i % s = 0}

\* the full similarity of the quote and the window at offset i of page p
WindowRatio(p, i) ==
    ratio(lower(quote), SubSeq(lower(doc[p].text), i + 1, i + Len(quote)))

\* the pages (1-based) that are not shorter than the quote and whose best window
\* scores at least 0.85
AcceptedPages ==
    {p \in 1..Len(doc) :
         /\ Len(doc[p].text) >= Len(quote)
         /\ \E i \in SampledOffsets(p) : ratio_ge(WindowRatio(p, i), Ratio(85, 100))}

\* C25: when the quote has no exact match, the fuzzy pass returns exactly one location,
\* on the first page that is not shorter than the quote and whose best sampled window
\* scores at least 0.85, and the empty sequence when there is no such page
C25_FuzzyPassFirstAcceptedPage ==
    (calls > 0 /\ ExactPages = {}) =>
        /\ fuzzy_called
        /\ IF AcceptedPages = {} THEN locations = <<>>
           ELSE Len(locations) = 1 /\ locations[1].page = MinOf(AcceptedPages)

(***************************************************************************)
(* The pruned loop of the fuzzy pass against the full maximum              *)
(***************************************************************************)
\* the pages (1-based) the loop of lines 173-181 can run on
LongEnoughPages == {p \in 1..Len(doc) : Len(doc[p].text) >= Len(quote)}

\* the cheap estimate of the window at offset i of page p
WindowQuickRatio(p, i) ==
    quick_ratio(lower(quote), SubSeq(lower(doc[p].text), i + 1, i + Len(quote)))

\* the cheap estimate of every sampled window is at least its full similarity
QuickBoundsFull ==
    \A p \in LongEnoughPages : \A i \in SampledOffsets(p) :
        ratio_ge(WindowQuickRatio(p, i), WindowRatio(p, i))

\* the sampled offsets of page p whose full similarity no other sampled window exceeds
TopOffsets(p) ==
    {i \in SampledOffsets(p) :
         \A j \in SampledOffsets(p) : ratio_ge(WindowRatio(p, i), WindowRatio(p, j))}

\* what the loop of lines 168-181 leaves in best_ratio and best_pos on page p
PrunedBest(p) ==
    best_window(lower(doc[p].text), lower(quote), 0, Max(1, Len(quote) \div 10),
                [ratio |-> Ratio(0, 1), pos |-> -1])

same_ratio(r, t) == r.num * t.den = t.num * r.den

\* C29 as stated: on every page the pruned loop ends with the maximum of the full
\* similarities of the sampled windows and the smallest offset that reaches it
C29_PrunedEqualsFullMaximum ==
    (calls > 0 /\ fuzzy_called /\ QuickBoundsFull) =>
        \A p \in LongEnoughPages :
            /\ same_ratio(PrunedBest(p).ratio, WindowRatio(p, MinOf(TopOffsets(p))))
            /\ PrunedBest(p).pos = MinOf(TopOffsets(p))

\* C29 amended: the pruned loop ends with the maximum of the full similarities of the
\* sampled windows; when that maximum is above 0 the offset is the smallest one that
\* reaches it, and when every sampled window scores 0 no offset is selected (-1)
C29_PrunedEqualsPositiveMaximum ==
    (calls > 0 /\ fuzzy_called /\ QuickBoundsFull) =>
        \A p \in LongEnoughPages :
            LET top == MinOf(TopOffsets(p)) IN
            /\ same_ratio(PrunedBest(p).ratio, WindowRatio(p, top))
            /\ PrunedBest(p).pos = IF WindowRatio(p, top).num > 0 THEN top ELSE -1

\* C29 witness: after a fuzzy pass, a page with two windows that share the best score,
\* above 0, and a later window whose cheap estimate does not exceed it (pruned)
C29_Witness ==
    /\ calls > 0 /\ fuzzy_called /\ QuickBoundsFull
    /\ \E p \in LongEnoughPages :
           /\ Cardinality(TopOffsets(p)) >= 2
           /\ WindowRatio(p, MinOf(TopOffsets(p))).num > 0
           /\ \E i \in SampledOffsets(p) :
                  /\ i > MinOf(TopOffsets(p))
                  /\ ~ratio_gt(WindowQuickRatio(p, i), PrunedBest(p).ratio)

(***************************************************************************)
(* Grounding of the quotes of the final record                             *)
(***************************************************************************)
RECURSIVE FieldsUnder(_)
\* the Fields of a section or list element, at any depth below it through dicts
FieldsUnder(n) ==
    IF ~IsDict(n) THEN {}
    ELSE IF HasKey(n, "value") THEN {n}
    ELSE UNION {FieldsUnder(n.vals[i]) : i \in 1..Len(n.vals)}

\* the non-empty quote strings of a Field
QuotesOfField(f) ==
    LET q == GetDefault(f, "quotes", List(<<>>)) IN
    IF ~IsList(q) THEN {}
    ELSE {q.vals[i] : i \in {j \in 1..Len(q.vals) :
                                 q.vals[j].k = "str" /\ chars_of(q.vals[j]) # <<>>}}

\* the locations stored on a section or list element
StoredLocations(sec) ==
    LET l == GetDefault(sec, "source_locations", List(<<>>)) IN
    IF IsList(l) THEN {l.vals[i] : i \in 1..Len(l.vals)} ELSE {}

\* every location of every quote of every Field of sec is stored on sec
GroundedIn(sec) ==
    \A f \in FieldsUnder(sec) : \A q \in QuotesOfField(f) :
        \A l \in 1..Len(locations_of(q)) : locations_of(q)[l] \in StoredLocations(sec)

\* C26: after _map_source_locations, the locations of every non-empty quote string of
\* every Field of the final record, at whatever depth, are in the source_locations of
\* the section or list element that contains the Field
C26_GroundingCoversAllQuotes ==
    (pc = "done" /\ persisted.stored) =>
        \A i \in 1..Len(data.vals) :
            /\ IsDict(data.vals[i]) => GroundedIn(data.vals[i])
            /\ IsList(data.vals[i]) =>
                   \A e \in 1..Len(data.vals[i].vals) :
                       IsDict(data.vals[i].vals[e]) => GroundedIn(data.vals[i].vals[e])

(***************************************************************************)
(* GRADE assessments of an extraction: run_grade_assessment                *)
(* (grade_service.py) and override_grade_domain (api/v1/grade.py).  data   *)
(* is the Extraction row; an assessment is the row                         *)
(*   [ratings: the five domain columns, upgrades: the three factor         *)
(*    columns, overall_certainty, is_overridden].                          *)
(***************************************************************************)
\* grade_service.py lines 109-111 and grade.py lines 113-115
study_type_of(extraction) ==
    LET sd == Get(extraction, "study_design") IN
    IF Truthy(sd) /\ IsDict(sd) THEN GetDefault(sd, "type", Text(<<>>)) ELSE Text(<<>>)

\* compute_overall_certainty called with the study type as it is stored:
\* study_design.lower() (line 149) raises AttributeError on anything but a string
certainty_of(study_type, ratings, upgrades) ==
    IF study_type.k # "str" THEN [v |-> "", exc |-> TRUE]
    ELSE compute_overall_certainty(chars_of(study_type), ratings, upgrades)

\* x or {} for each column of a mapping (grade.py lines 95-106)
or_empty(columns) ==
    Dict(columns.keys,
         [i \in 1..Len(columns.vals) |->
             IF Truthy(columns.vals[i]) THEN columns.vals[i] ELSE EmptyDict])

\* domain_results.get(name) / upgrade_data.get(name) for each column (lines 125-132)
columns_of(names, results) == Dict(names, [i \in 1..Len(names) |-> Get(results, names[i])])

\* lines 65-138: the assessment of one outcome from the parsed oracle answers
_assess_outcome(extraction, answer) ==
    LET c == certainty_of(study_type_of(extraction), answer.domain_results,
                          answer.upgrade_data)
    IN [v |-> [ratings |-> columns_of(downgrade_domains, answer.domain_results),
               upgrades |-> columns_of(upgrade_names, answer.upgrade_data),
               overall_certainty |-> c.v,
               is_overridden |-> FALSE],
        exc |-> c.exc]

\* lines 45-62: [v |-> the assessments, exc |-> raised]; answers[i] are the oracle
\* answers about the i-th outcome
run_grade_assessment(extraction, answers) ==
    LET outcomes == Get(extraction, "outcomes")
        listed == IF IsDict(outcomes) THEN List(<<outcomes>>) ELSE outcomes
        made == [i \in 1..Len(listed.vals) |-> _assess_outcome(extraction, answers[i])]
    IN IF ~Truthy(outcomes) THEN [v |-> <<>>, exc |-> FALSE]
       ELSE IF \E i \in 1..Len(made) : ~IsDict(listed.vals[i]) \/ made[i].exc
            THEN [v |-> <<>>, exc |-> TRUE]
       ELSE [v |-> [i \in 1..Len(made) |-> made[i].v], exc |-> FALSE]

\* grade.py lines 70-76
valid_domains == downgrade_domains

IsValidDomain(domain) == \E i \in 1..Len(valid_domains) : valid_domains[i] = domain

\* lines 81-91: the loaded assessment with the override applied to the domain
overridden(assessment, domain, new_rating) ==
    LET old == Get(assessment.ratings, domain)
        domain_data == IF Truthy(old) THEN old ELSE EmptyDict
        changed == SetKey(SetKey(SetKey(domain_data, "rating", Str(new_rating)),
                                 "override_reason", Str("reason")),
                          "overridden", Bool(TRUE))
    IN [assessment EXCEPT !.ratings = SetKey(assessment.ratings, domain, changed),
                          !.is_overridden = TRUE]

\* lines 93-119: the object with its overall certainty recomputed; exc when
\* compute_overall_certainty raises
recomputed(object, extraction) ==
    LET c == certainty_of(study_type_of(extraction), or_empty(object.ratings),
                          or_empty(object.upgrades))
    IN [v |-> [object EXCEPT !.overall_certainty = c.v], exc |-> c.exc]

\* line 121, db.flush(): the columns of the object that are written to the row.  The
\* domain columns are plain JSONB columns (models/grade_assessment.py lines 22-26), so
\* a column is written when the value assigned to it differs from the value it held;
\* a dict that was loaded, changed in place and assigned back (lines 81-85) is the
\* value it held, and is not written
flushed(row, object, domain) ==
    LET in_place == Truthy(Get(row.ratings, domain)) IN
    [object EXCEPT !.ratings = IF in_place THEN row.ratings ELSE object.ratings]

\* the Extraction rows the assessments are made for
AssessDesigns ==
    {Null,
     Dict(<<"type">>, <<MkField(Text(<<"R", "C", "T">>), Str("high"), Absent, List(<<Str("q")>>))>>),
     Dict(<<"type">>, <<Text(<<"R", "C", "T">>)>>),
     Dict(<<"type">>, <<Text(CohortStudy)>>),
     Dict(<<"description">>, <<Fld(Str("x"))>>)}

AssessOutcomes ==
    {Null, List(<<>>), List(<<Dict(<<"name">>, <<Str("death")>>)>>),
     List(<<Dict(<<"name">>, <<Str("death")>>), Dict(<<"name">>, <<Str("pain")>>)>>)}

AssessExtractions ==
    {Dict(<<"study_design", "outcomes">>, <<sd, o>>) : sd \in AssessDesigns, o \in AssessOutcomes}

\* the parsed oracle answers about one outcome
AssessAnswers ==
    {[domain_results |-> MkDict(downgrade_domains, r, 1), upgrade_data |-> MkDict(upgrade_names, u, 1)] :
         r \in {[i \in DomainSlots |-> Rating("no_serious")],
                [i \in DomainSlots |-> IF i = 1 THEN Rating("serious")
                                       ELSE IF i = 4 THEN Absent ELSE Rating("no_serious")]},
         u \in {[i \in FactorSlots |-> Applicable(FALSE)],
                [i \in FactorSlots |-> Applicable(i = 1)]}}

\* the domains and ratings of the override requests
OverrideDomains == {"risk_of_bias", "imprecision", "bogus_domain"}
OverrideRatings == {"no_serious", "very_serious", "bogus"}

\* override requests made on the assessments of an extraction
MaxOverrides == 2

InitAssess ==
    /\ pc = "assess"
    /\ data \in AssessExtractions
    /\ assessments = <<>>
    /\ returned = NoAssessment
    /\ request = NoRequest
    /\ before = Null /\ verification = Null
    /\ raised = FALSE
    /\ stats = NewStats
    /\ IdleParse /\ IdleGrade /\ IdleRun /\ IdleLocate /\ IdleValidate /\ IdleVersion

\* POST /extractions/{id}/grade: run_grade_assessment
Assess ==
    /\ pc = "assess"
    /\ \E answers \in [1..2 -> AssessAnswers] :
         LET r == run_grade_assessment(data, answers) IN
         /\ assessments' = r.v
         /\ raised' = r.exc
         /\ pc' = IF r.exc THEN "assess_failed" ELSE "assessed"
    /\ UNCHANGED <<versionVars, locateVars, validation_warnings, data, before, verification,
                   stats, parseVars, gradeVars, runVars, returned, request>>

\* the handler found the assessment and the domain is valid: lines 81-122
override_found(id, domain, new_rating, r) ==
    /\ raised' = r.exc
    /\ request' = [made |-> request.made + 1, id |-> id, domain |-> domain,
                   new_rating |-> new_rating, status |-> IF r.exc THEN 500 ELSE 200]
    /\ IF r.exc THEN UNCHANGED <<assessments, returned>>
       ELSE /\ returned' = r.v
            /\ assessments' = [assessments EXCEPT ![id] = flushed(@, r.v, domain)]

\* PUT /grade-assessments/{id}: override_grade_domain
Override ==
    /\ pc = "assessed"
    /\ request.made < MaxOverrides
    /\ \E id \in 1..(Len(assessments) + 1), domain \in OverrideDomains,
          new_rating \in OverrideRatings :
         IF id > Len(assessments) \/ ~IsValidDomain(domain)
         THEN /\ request' = [made |-> request.made + 1, id |-> id, domain |-> domain,
                             new_rating |-> new_rating,
                             status |-> IF id > Len(assessments) THEN 404 ELSE 400]
              /\ UNCHANGED <<assessments, returned, raised>>
         ELSE override_found(id, domain, new_rating,
                             recomputed(overridden(assessments[id], domain, new_rating),
                                        data))
    /\ UNCHANGED <<versionVars, locateVars, validation_warnings, pc, data, before,
                   verification, stats, parseVars, gradeVars, runVars>>

NextAssess == Assess \/ Override

SpecAssess == InitAssess /\ [][NextAssess]_vars

\* the study-design type of the extraction is stored as a Field
TypeIsField ==
    LET sd == Get(data, "study_design") IN
    IsDict(sd) /\ IsDict(Get(sd, "type")) /\ HasKey(Get(sd, "type"), "value")

\* C27: for an extraction whose study_design.type is stored as a Field, with outcomes,
\* run_grade_assessment completes without raising and gives every outcome an assessment
C27_AssessesFieldStudyType ==
    (pc # "assess" /\ TypeIsField /\ Truthy(Get(data, "outcomes"))) =>
        /\ ~raised
        /\ Len(assessments) = Len(Get(data, "outcomes").vals)

\* C28: after an override_grade_domain call that returned, the stored overall_certainty
\* of the assessment equals compute_overall_certainty of the extraction's study-design
\* type and the stored domain ratings and upgrade factors of the assessment
C28_OverallMatchesStoredRatings ==
    request.status = 200 =>
        LET a == assessments[request.id] IN
        certainty_of(study_type_of(data), or_empty(a.ratings), or_empty(a.upgrades))
            = [v |-> a.overall_certainty, exc |-> FALSE]

(***************************************************************************)
(* Version numbers: run_extraction calls on one article that overlap in    *)
(* time.  Each call counts the Extraction rows of the article (lines       *)
(* 140-145, an awaited query) and later adds its own row (lines 148-177,   *)
(* an awaited flush); the calls of other requests run between the two.  A  *)
(* row is taken to be visible to every call as soon as it is flushed.      *)
(***************************************************************************)
\* the requests that run run_extraction on the article
Workers == {1, 2}

\* run_extraction calls made by one request after another
MaxRuns == 3

InitVersion ==
    /\ pc = "version"
    /\ rows = <<>>
    /\ worker = [w \in Workers |-> [step |-> "idle", counted |-> 0, runs |-> 0]]
    /\ data = Null /\ before = Null /\ verification = Null
    /\ raised = FALSE
    /\ stats = NewStats
    /\ IdleParse /\ IdleGrade /\ IdleRun /\ IdleLocate /\ IdleValidate /\ IdleAssess

\* lines 140-145: version = len(rows of the article) + 1
CountExisting(w) ==
    /\ pc = "version"
    /\ worker[w].step = "idle"
    /\ worker[w].runs < MaxRuns
    /\ worker' = [worker EXCEPT ![w].step = "counted", ![w].counted = Len(rows)]
    /\ UNCHANGED <<assessVars, locateVars, validation_warnings, pc, data, before,
                   verification, raised, stats, parseVars, gradeVars, runVars, rows>>

\* lines 148-177: Extraction(version=version, ...) is added and flushed
InsertRow(w) ==
    /\ pc = "version"
    /\ worker[w].step = "counted"
    /\ rows' = Append(rows, worker[w].counted + 1)
    /\ worker' = [worker EXCEPT ![w].step = "idle", ![w].runs = @ + 1]
    /\ UNCHANGED <<assessVars, locateVars, validation_warnings, pc, data, before,
                   verification, raised, stats, parseVars, gradeVars, runVars>>

NextVersion == \E w \in Workers : CountExisting(w) \/ InsertRow(w)

SpecVersion == InitVersion /\ [][NextVersion]_vars

\* C30: no two stored extractions of the article carry the same version number
C30_VersionsUnique ==
    \A i \in 1..Len(rows) : \A j \in 1..Len(rows) : i # j => rows[i] # rows[j]

====
